---- MODULE Spec2Model ----
(***************************************************************************)
(* Model of PingIT: the prober (pingit.py: TargetStats, PingService) and   *)
(* the collector (webserver.py: MetricsCache, request handlers; admin.py). *)
(***************************************************************************)
EXTENDS Integers, Sequences, FiniteSets, TLC

(***************************************************************************)
(* Bounds of the model                                                     *)
(***************************************************************************)
MaxProbes == 5
MaxInterval == 3

(***************************************************************************)
(* Values                                                                  *)
(***************************************************************************)
\* Python None (last_status unknown, response_time absent)
NONE == -1
UP == 1
DOWN == 0

Targets == {"t1", "t2"}
\* the configured target list (load_config): one or two targets
TargetLists == {<<"t1">>, <<"t1", "t2">>}
\* host.avg_rtt of a successful probe, in ms
RTs == {0, 7}
\* what requests.post can do: a 201, another status, or an exception
Outcomes == {"201", "non201", "Timeout", "ConnectionError", "Exception"}

VARIABLES
    \* ---- prober (pingit.py) ----
    targets,          \* PingService.targets, in configuration order
    report_interval,  \* PingService.report_interval
    report_to_log,    \* PingService.report_to_log
    running,          \* PingService.running
    pc,               \* position of the prober in start/_run_scheduled/ping_target
    idx,              \* index of the for loop over self.targets
    cur,              \* locals of the ping_target in progress
    target_stats,     \* PingService.target_stats: target -> TargetStats
    \* history of the prober's observable behaviour
    history,          \* per target, the probe results in order
    disconnects,      \* per target, the probe indices at which _report_disconnect was called
    reports,          \* per target, the statistics reports emitted
    posts,            \* the requests.post calls made, in order
    lastDelivery,     \* outcome of the latest requests.post
    loop_error,       \* an exception reached _run_scheduled
    \* ---- collector (webserver.py, admin.py) ----
    prometheus_mode,  \* global prometheus_mode: drain the cache on every scrape
    cache_lock,       \* MetricsCache.lock: the thread holding it, or NoThread
    metrics,          \* MetricsCache.metrics: target name -> reference of its entry
    heap,             \* the entry objects: reference -> entry
    sqlite_lock,      \* global sqlite_lock: the thread holding it, or NoThread
    db_writer,        \* the connection with an open write transaction on the database file
    store,            \* the tables ping_statistics and disconnect_times
    now,              \* the wall clock, in ms
    threads,          \* per request thread: position, request, locals, response
    nreq,             \* number of requests received so far
    response,         \* status code of the latest response
    lin,              \* the cache as the calls made so far build it, one whole call at a time
    drained,          \* per sample, how many get_and_clear snapshots returned it
    passed,           \* the samples whose update_ping_time call has returned
    seq,              \* the latest call of a single caller of the cache, with its result
    \* ---- the read side of the collector (webserver.py) ----
    tables,           \* the rows of ping_statistics and disconnect_times, all columns read
    utc_offset,       \* local time minus UTC on the collector's host, in hours
    data_now,         \* datetime.now() of the read request, in hours
    reply,            \* the body and status of the latest read request
    \* ---- filter_points_by_trend (webserver.py) ----
    trend_in,         \* the arguments of the call
    trend_out,        \* the list it returned
    \* ---- normalize_timestamp_ms (webserver.py) ----
    norm              \* the value passed and what the calls made on it returned

proberVars == <<targets, report_interval, report_to_log, running, pc, idx, cur,
                target_stats, history, disconnects, reports, posts, lastDelivery,
                loop_error>>

collectorVars == <<prometheus_mode, cache_lock, metrics, heap, sqlite_lock, db_writer,
                   store, now, threads, nreq, response, lin, drained, passed, seq>>

readVars == <<tables, utc_offset, data_now, reply, trend_in, trend_out, norm>>

vars == <<targets, report_interval, report_to_log, running, pc, idx, cur,
          target_stats, history, disconnects, reports, posts, lastDelivery,
          loop_error,
          prometheus_mode, cache_lock, metrics, heap, sqlite_lock, db_writer,
          store, now, threads, nreq, response, lin, drained, passed, seq,
          tables, utc_offset, data_now, reply, trend_in, trend_out, norm>>

(***************************************************************************)
(* TargetStats (pingit.py)                                                 *)
(***************************************************************************)
TargetStats == [total_pings |-> 0, successful_pings |-> 0, failed_pings |-> 0,
                last_status |-> NONE, response_times |-> <<>>, ping_iteration |-> 0]

\* Python truthiness of an Optional[float]: None and 0.0 are falsy
Truthy(x) == x # NONE /\ x # 0

add_ping_forgets_failed(s, success, response_time) ==
    LET s1 == [s EXCEPT !.total_pings = @ + 1, !.ping_iteration = @ + 1]
    IN  IF success
        THEN [s1 EXCEPT !.successful_pings = @ + 1,
                        !.response_times = IF Truthy(response_time)
                                           THEN Append(@, response_time) ELSE @]
        ELSE s1

add_ping(s, success, response_time) ==
    LET s1 == [s EXCEPT !.total_pings = @ + 1, !.ping_iteration = @ + 1]
    IN  IF success
        THEN [s1 EXCEPT !.successful_pings = @ + 1,
                        !.response_times = IF Truthy(response_time)
                                           THEN Append(@, response_time) ELSE @]
        ELSE [s1 EXCEPT !.failed_pings = @ + 1]

reset_iteration_forgets_status(s) ==
    [s EXCEPT !.ping_iteration = 0, !.total_pings = 0,
              !.successful_pings = 0, !.failed_pings = 0,
              !.response_times = <<>>, !.last_status = NONE]

reset_iteration_keeps_samples(s) ==
    [s EXCEPT !.ping_iteration = 0, !.total_pings = 0,
              !.successful_pings = 0, !.failed_pings = 0]

reset_iteration(s) ==
    [s EXCEPT !.ping_iteration = 0, !.total_pings = 0,
              !.successful_pings = 0, !.failed_pings = 0,
              !.response_times = <<>>]

RECURSIVE SeqSum(_)
SeqSum(q) == IF q = <<>> THEN 0 ELSE Head(q) + SeqSum(Tail(q))

SeqMin(q) == CHOOSE m \in {q[i] : i \in 1..Len(q)} : \A i \in 1..Len(q) : m <= q[i]
SeqMax(q) == CHOOSE m \in {q[i] : i \in 1..Len(q)} : \A i \in 1..Len(q) : m >= q[i]

\* round(num/den, 2) in hundredths, ties to even as Python's round
Round2(num, den) ==
    LET q == (num * 100) \div den
        r == (num * 100) % den
    IN  IF 2 * r > den THEN q + 1
        ELSE IF 2 * r < den THEN q
        ELSE IF q % 2 = 0 THEN q ELSE q + 1

\* get_statistics: rates and times are in hundredths (two decimals)
get_statistics(s) ==
    LET n == Len(s.response_times)
        success_rate == IF s.total_pings > 0
                        THEN Round2(s.successful_pings * 100, s.total_pings) ELSE 0
        avg_rt == IF n > 0 THEN Round2(SeqSum(s.response_times), n) ELSE NONE
        min_rt == IF n > 0 THEN SeqMin(s.response_times) * 100 ELSE NONE
        max_rt == IF n > 0 THEN SeqMax(s.response_times) * 100 ELSE NONE
    IN  [total_pings |-> s.total_pings,
         successful_pings |-> s.successful_pings,
         failed_pings |-> s.failed_pings,
         success_rate |-> success_rate,
         avg_response_time |-> IF Truthy(avg_rt) THEN avg_rt ELSE NONE,
         min_response_time |-> IF Truthy(min_rt) THEN min_rt ELSE NONE,
         max_response_time |-> IF Truthy(max_rt) THEN max_rt ELSE NONE,
         last_status |-> s.last_status]

(***************************************************************************)
(* PingService (pingit.py)                                                 *)
(***************************************************************************)
\* ping_target line 340: the disconnect edge
DisconnectEdgeOnlyFromUp(last_status, current_status) ==
    last_status = UP /\ current_status = DOWN

DisconnectEdge(last_status, current_status) ==
    last_status # DOWN /\ current_status = DOWN

\* ping_target line 347: the report trigger
ReportDueLate(s, interval) == s.ping_iteration > interval

ReportDue(s, interval) == s.ping_iteration >= interval

\* _report_disconnect / _report_statistics: which outcomes of requests.post
\* are handled inside the method (status check, except clauses)
HandledButTimeout(outcome) ==
    outcome \in {"201", "non201", "ConnectionError", "Exception"}

Handled(outcome) ==
    outcome \in {"201", "non201", "Timeout", "ConnectionError", "Exception"}

NProbes == SeqSum([i \in 1..Len(targets) |-> Len(history[targets[i]])])

ProberInit ==
    /\ targets \in TargetLists
    /\ report_interval \in 1..MaxInterval
    /\ report_to_log \in BOOLEAN
    /\ running = FALSE
    /\ pc = "idle"
    /\ idx = 0
    /\ cur = [success |-> FALSE, response_time |-> NONE]
    /\ target_stats = [t \in Targets |-> TargetStats]
    /\ history = [t \in Targets |-> <<>>]
    /\ disconnects = [t \in Targets |-> {}]
    /\ reports = [t \in Targets |-> <<>>]
    /\ posts = <<>>
    /\ lastDelivery = "none"
    /\ loop_error = FALSE

\* start(): lines 456-464
start ==
    /\ pc = "idle"
    /\ ~running
    /\ running' = TRUE
    /\ pc' = "while"
    /\ UNCHANGED <<targets, report_interval, report_to_log, idx, cur, target_stats,
                   history, disconnects, reports, posts, lastDelivery, loop_error>>
    /\ UNCHANGED collectorVars
    /\ UNCHANGED readVars

\* stop() called from outside the loop while the service runs: lines 488-492
stop ==
    /\ running
    /\ pc # "stopped"
    /\ running' = FALSE
    /\ UNCHANGED <<targets, report_interval, report_to_log, pc, idx, cur, target_stats,
                   history, disconnects, reports, posts, lastDelivery, loop_error>>
    /\ UNCHANGED collectorVars
    /\ UNCHANGED readVars

\* _run_scheduled line 472: while self.running; the finally clause calls stop()
RunWhile ==
    /\ pc = "while"
    /\ IF running
       THEN pc' = "for" /\ idx' = 1 /\ UNCHANGED running
       ELSE pc' = "stopped" /\ running' = FALSE /\ UNCHANGED idx
    /\ UNCHANGED <<targets, report_interval, report_to_log, cur, target_stats,
                   history, disconnects, reports, posts, lastDelivery, loop_error>>
    /\ UNCHANGED collectorVars
    /\ UNCHANGED readVars

\* _run_scheduled lines 474-476: for target in self.targets: if self.running
RunFor ==
    /\ pc = "for"
    /\ IF idx > Len(targets)
       THEN pc' = "sleep" /\ UNCHANGED idx
       ELSE IF running
            THEN pc' = "ping" /\ UNCHANGED idx
            ELSE pc' = "for" /\ idx' = idx + 1
    /\ UNCHANGED <<targets, report_interval, report_to_log, running, cur, target_stats,
                   history, disconnects, reports, posts, lastDelivery, loop_error>>
    /\ UNCHANGED collectorVars
    /\ UNCHANGED readVars

\* _run_scheduled line 479: time.sleep(self.ping_interval)
RunSleep ==
    /\ pc = "sleep"
    /\ pc' = "while"
    /\ UNCHANGED <<targets, report_interval, report_to_log, running, idx, cur, target_stats,
                   history, disconnects, reports, posts, lastDelivery, loop_error>>
    /\ UNCHANGED collectorVars
    /\ UNCHANGED readVars

\* ping_target lines 314-335: the probe and stats.add_ping
PingProbe ==
    /\ pc = "ping"
    /\ NProbes < MaxProbes
    /\ LET t == targets[idx] IN
       \E success \in BOOLEAN :
       \E rt \in (IF success THEN RTs ELSE {NONE}) :
          /\ cur' = [success |-> success, response_time |-> rt]
          /\ target_stats' = [target_stats EXCEPT ![t] = add_ping(@, success, rt)]
          /\ history' = [history EXCEPT ![t] = Append(@, [success |-> success, response_time |-> rt])]
    /\ pc' = "detect"
    /\ UNCHANGED <<targets, report_interval, report_to_log, running, idx,
                   disconnects, reports, posts, lastDelivery, loop_error>>
    /\ UNCHANGED collectorVars
    /\ UNCHANGED readVars

\* ping_target lines 337-344: disconnect detection, _report_disconnect, status update
PingDetect ==
    /\ pc = "detect"
    /\ LET t == targets[idx]
           current_status == IF cur.success THEN UP ELSE DOWN
           n == Len(history[t])
       IN  IF DisconnectEdge(target_stats[t].last_status, current_status)
           THEN /\ disconnects' = [disconnects EXCEPT ![t] = @ \cup {n}]
                /\ IF report_to_log
                   THEN /\ UNCHANGED <<posts, lastDelivery, loop_error, running>>
                        /\ target_stats' = [target_stats EXCEPT ![t].last_status = current_status]
                        /\ pc' = "check"
                   ELSE \E outcome \in Outcomes :
                          /\ posts' = Append(posts, <<"disconnect", t, n>>)
                          /\ lastDelivery' = outcome
                          /\ IF Handled(outcome)
                             THEN /\ target_stats' = [target_stats EXCEPT ![t].last_status = current_status]
                                  /\ pc' = "check"
                                  /\ UNCHANGED <<loop_error, running>>
                             ELSE \* lines 483-486: except Exception, finally stop()
                                  /\ loop_error' = TRUE
                                  /\ running' = FALSE
                                  /\ pc' = "stopped"
                                  /\ UNCHANGED target_stats
           ELSE /\ target_stats' = [target_stats EXCEPT ![t].last_status = current_status]
                /\ pc' = "check"
                /\ UNCHANGED <<disconnects, posts, lastDelivery, loop_error, running>>
    /\ UNCHANGED <<targets, report_interval, report_to_log, idx, cur, history, reports>>
    /\ UNCHANGED collectorVars
    /\ UNCHANGED readVars

\* ping_target lines 346-350: the report trigger and _report_statistics
PingCheckReport ==
    /\ pc = "check"
    /\ LET t == targets[idx]
           s == target_stats[t]
       IN  IF ReportDue(s, report_interval)
           THEN /\ reports' = [reports EXCEPT ![t] =
                      Append(@, [at |-> Len(history[t]), data |-> get_statistics(s),
                                 samples |-> s.response_times])]
                /\ IF report_to_log
                   THEN /\ pc' = "reset"
                        /\ UNCHANGED <<posts, lastDelivery, loop_error, running, idx>>
                   ELSE \E outcome \in Outcomes :
                          /\ posts' = Append(posts, <<"statistics", t, Len(history[t])>>)
                          /\ lastDelivery' = outcome
                          /\ IF Handled(outcome)
                             THEN pc' = "reset" /\ UNCHANGED <<loop_error, running, idx>>
                             ELSE /\ loop_error' = TRUE
                                  /\ running' = FALSE
                                  /\ pc' = "stopped"
                                  /\ UNCHANGED idx
           ELSE /\ pc' = "for"
                /\ idx' = idx + 1
                /\ UNCHANGED <<reports, posts, lastDelivery, loop_error, running>>
    /\ UNCHANGED <<targets, report_interval, report_to_log, cur, target_stats,
                   history, disconnects>>
    /\ UNCHANGED collectorVars
    /\ UNCHANGED readVars

\* ping_target line 351: stats.reset_iteration()
PingReset ==
    /\ pc = "reset"
    /\ target_stats' = [target_stats EXCEPT ![targets[idx]] = reset_iteration(@)]
    /\ pc' = "for"
    /\ idx' = idx + 1
    /\ UNCHANGED <<targets, report_interval, report_to_log, running, cur,
                   history, disconnects, reports, posts, lastDelivery, loop_error>>
    /\ UNCHANGED collectorVars
    /\ UNCHANGED readVars

(***************************************************************************)
(* MetricsCache (webserver.py)                                             *)
(* The cache object C is [m |-> self.metrics, h |-> the entry objects]:    *)
(* self.metrics maps a target name to a reference, h maps the reference to *)
(* the inner dict, so that a copy can share entries or not.                *)
(***************************************************************************)
MaxCalls == 4

Hosts == {"h1", "h2"}
NoThread == 0

\* {} : the empty dict
EmptyMap == [t \in {} |-> 0]

Restrict(f, S) == [x \in (DOMAIN f) \cap S |-> f[x]]
Range(f) == {f[x] : x \in DOMAIN f}

\* MetricsCache.__init__
NewCache == [m |-> EmptyMap, h |-> EmptyMap]

\* the contents of the cache, entries by value
View(C) == [t \in DOMAIN C.m |-> C.h[C.m[t]]]

\* a fresh reference for a new inner dict
NewRef(C) == CHOOSE i \in 1..(Cardinality(DOMAIN C.h) + 1) :
                 /\ i \notin DOMAIN C.h
                 /\ \A j \in 1..(i - 1) : j \in DOMAIN C.h

Entry(host, disconnect_count, status) ==
    [host |-> host, ping_times |-> <<>>,
     disconnect_count |-> disconnect_count, status |-> status]

SetEntry(C, t, e) ==
    LET i == NewRef(C) IN [m |-> C.m @@ (t :> i), h |-> C.h @@ (i :> e)]

\* update_ping_time, lines 200-206, 207, 208, 209
upt_create(C, t, host) ==
    IF t \notin DOMAIN C.m THEN SetEntry(C, t, Entry(host, 0, UP)) ELSE C
upt_append(C, t, response_time) ==
    [C EXCEPT !.h[C.m[t]].ping_times = Append(@, response_time)]
upt_host(C, t, host) == [C EXCEPT !.h[C.m[t]].host = host]
upt_status(C, t) == [C EXCEPT !.h[C.m[t]].status = UP]

update_ping_time(C, t, host, response_time) ==
    upt_status(upt_host(upt_append(upt_create(C, t, host), t, response_time), t, host), t)

\* update_status, lines 214-222
update_status(C, t, host, status) ==
    IF t \notin DOMAIN C.m
    THEN SetEntry(C, t, Entry(host, 0, status))
    ELSE [C EXCEPT !.h[C.m[t]].status = status]

\* increment_disconnect, lines 227-235 and 236
inc_count(C, t, host) ==
    IF t \notin DOMAIN C.m
    THEN SetEntry(C, t, Entry(host, 1, DOWN))
    ELSE [C EXCEPT !.h[C.m[t]].disconnect_count = @ + 1]
inc_status(C, t) == [C EXCEPT !.h[C.m[t]].status = DOWN]

increment_disconnect(C, t, host) ==
    IF t \notin DOMAIN C.m THEN inc_count(C, t, host)
    ELSE inc_status(inc_count(C, t, host), t)

\* copy.deepcopy(self.metrics): the dict and every inner dict are copied
shallowcopy(C) == [kind |-> "alias", val |-> C.m]

deepcopy(C) == [kind |-> "copy", val |-> View(C)]

NoSnapshot == [kind |-> "copy", val |-> EmptyMap]

\* what a holder of snapshot s reads in it, given the entry objects h
SnapView(s, h) ==
    IF s.kind = "copy" THEN s.val ELSE [t \in DOMAIN s.val |-> h[s.val[t]]]

\* the entry objects a snapshot keeps alive
SnapRefs(s) == IF s.kind = "alias" THEN Range(s.val) ELSE {}

\* self.metrics = {} : the old entries live on only where a snapshot holds them
clear(C, live) == [m |-> EmptyMap, h |-> Restrict(C.h, live)]

\* get_and_clear, lines 240-243: the returned result and the cache after it
get_and_clear_keeps(C) == [result |-> deepcopy(C), cache |-> C]

get_and_clear(C) ==
    LET result == deepcopy(C)
    IN  [result |-> result, cache |-> clear(C, SnapRefs(result))]

\* get_copy, lines 247-248
get_copy(C) == deepcopy(C)

(***************************************************************************)
(* The cache used by a single caller: every call runs to completion        *)
(***************************************************************************)
Cache == [m |-> metrics, h |-> heap]

\* the last call of the single caller: its name, the cache it found, what it
\* returned, and the call before it
SeqIdle == [op |-> "none", prev_op |-> "none", n |-> 0, before |-> EmptyMap,
            result |-> NoSnapshot, prev_result |-> NoSnapshot]

CacheInit ==
    /\ cache_lock = NoThread
    /\ metrics = EmptyMap
    /\ heap = EmptyMap
    /\ lin = NewCache
    /\ drained = EmptyMap
    /\ passed = {}
    /\ seq = SeqIdle

SeqCall(op, C, result) ==
    /\ seq.n < MaxCalls
    /\ metrics' = C.m
    /\ heap' = C.h
    /\ seq' = [op |-> op, prev_op |-> seq.op, n |-> seq.n + 1,
               before |-> View(Cache), result |-> result,
               prev_result |-> seq.result]

CallUpdatePingTime ==
    /\ \E t \in Targets, host \in Hosts :
          SeqCall("update_ping_time",
                  update_ping_time(Cache, t, host, seq.n + 1), NoSnapshot)
    /\ UNCHANGED <<prometheus_mode, cache_lock, sqlite_lock, db_writer, store, now,
                   threads, nreq, lin, drained, passed>>
    /\ UNCHANGED response
    /\ UNCHANGED proberVars
    /\ UNCHANGED readVars

CallUpdateStatus ==
    /\ \E t \in Targets, host \in Hosts, status \in {DOWN, UP} :
          SeqCall("update_status", update_status(Cache, t, host, status), NoSnapshot)
    /\ UNCHANGED <<prometheus_mode, cache_lock, sqlite_lock, db_writer, store, now,
                   threads, nreq, lin, drained, passed>>
    /\ UNCHANGED response
    /\ UNCHANGED proberVars
    /\ UNCHANGED readVars

CallIncrementDisconnect ==
    /\ \E t \in Targets, host \in Hosts :
          SeqCall("increment_disconnect", increment_disconnect(Cache, t, host), NoSnapshot)
    /\ UNCHANGED <<prometheus_mode, cache_lock, sqlite_lock, db_writer, store, now,
                   threads, nreq, lin, drained, passed>>
    /\ UNCHANGED response
    /\ UNCHANGED proberVars
    /\ UNCHANGED readVars

CallGetAndClear ==
    /\ LET r == get_and_clear(Cache) IN SeqCall("get_and_clear", r.cache, r.result)
    /\ UNCHANGED <<prometheus_mode, cache_lock, sqlite_lock, db_writer, store, now,
                   threads, nreq, lin, drained, passed>>
    /\ UNCHANGED response
    /\ UNCHANGED proberVars
    /\ UNCHANGED readVars

CallGetCopy ==
    /\ SeqCall("get_copy", Cache, get_copy(Cache))
    /\ UNCHANGED <<prometheus_mode, cache_lock, sqlite_lock, db_writer, store, now,
                   threads, nreq, lin, drained, passed>>
    /\ UNCHANGED response
    /\ UNCHANGED proberVars
    /\ UNCHANGED readVars

CallClear ==
    /\ SeqCall("clear", clear(Cache, {}), NoSnapshot)
    /\ UNCHANGED <<prometheus_mode, cache_lock, sqlite_lock, db_writer, store, now,
                   threads, nreq, lin, drained, passed>>
    /\ UNCHANGED response
    /\ UNCHANGED proberVars
    /\ UNCHANGED readVars

NextCache ==
    \/ CallUpdatePingTime
    \/ CallUpdateStatus
    \/ CallIncrementDisconnect
    \/ CallGetAndClear
    \/ CallGetCopy
    \/ CallClear

(***************************************************************************)
(* Threads of the collector (webserver.py): callers of the MetricsCache    *)
(* methods and the request handlers                                        *)
(***************************************************************************)
MaxConcurrentCalls == 4
MaxRequests == 2
MaxTicks == 1

Threads == {1, 2}

\* the targets whose reports reach the collector
Monitored == {"t1"}

\* a timestamp as it arrives in a JSON body: a number of ms, or unparsable text
TsInt(v) == [kind |-> "int", v |-> v]
TsText == [kind |-> "text", v |-> 0]
TsNone == [kind |-> "none", v |-> 0]
\* text as older versions stored it: a number in digits, a local date and time
TsNumStr(v) == [kind |-> "numstr", v |-> v]
TsIso(v) == [kind |-> "iso", v |-> v]

\* a float with one decimal, v tenths; the floats nan and inf, which a JSON
\* body can carry as NaN and 1e999; a string spelled out in characters; a
\* value that is neither null, a number nor a string
TsFloat(v) == [kind |-> "float", v |-> v]
TsNan == [kind |-> "nan", v |-> 0]
TsInf == [kind |-> "inf", v |-> 0]
TsStr(chars) == [kind |-> "str", v |-> 0, chars |-> chars]
TsOther == [kind |-> "other", v |-> 0]

DigitChars == <<"0", "1", "2", "3", "4", "5", "6", "7", "8", "9">>

IsDigit(c) == \E d \in 1..10 : DigitChars[d] = c

DigitValue(c) == (CHOOSE d \in 1..10 : DigitChars[d] = c) - 1

\* the number spelled by a string of digits
RECURSIVE digits_value(_)
digits_value(chars) ==
    IF chars = <<>> THEN 0
    ELSE digits_value(SubSeq(chars, 1, Len(chars) - 1)) * 10
            + DigitValue(chars[Len(chars)])

\* float(value) of line 140 with the sign dropped
float_of_string_unsigned(chars) ==
    LET body == IF chars # <<>> /\ chars[1] = "-" THEN Tail(chars) ELSE chars
        dots == {k \in 1..Len(body) : body[k] = "."}
        whole == IF dots = {} THEN body
                 ELSE SubSeq(body, 1, (CHOOSE k \in dots : TRUE) - 1)
    IN  IF /\ \A k \in 1..Len(body) : IsDigit(body[k]) \/ body[k] = "."
           /\ Cardinality(dots) <= 1
           /\ \E k \in 1..Len(body) : IsDigit(body[k])
        THEN [ok |-> TRUE, special |-> FALSE, whole |-> digits_value(whole)]
        ELSE [ok |-> FALSE, special |-> FALSE, whole |-> 0]

\* float(value) of line 140 followed by the truncation of int(): an optional
\* sign, digits with at most one point and at least one digit; "nan" and
\* "inf" are floats that int() refuses
float_of_string(chars) ==
    IF chars \in {<<"nan">>, <<"inf">>}
    THEN [ok |-> TRUE, special |-> TRUE, whole |-> 0]
    ELSE LET negative == chars # <<>> /\ chars[1] = "-"
             body == IF negative THEN Tail(chars) ELSE chars
             dots == {k \in 1..Len(body) : body[k] = "."}
             whole == IF dots = {} THEN body
                      ELSE SubSeq(body, 1, (CHOOSE k \in dots : TRUE) - 1)
         IN  IF /\ \A k \in 1..Len(body) : IsDigit(body[k]) \/ body[k] = "."
                /\ Cardinality(dots) <= 1
                /\ \E k \in 1..Len(body) : IsDigit(body[k])
             THEN [ok |-> TRUE, special |-> FALSE,
                   whole |-> IF negative THEN 0 - digits_value(whole)
                             ELSE digits_value(whole)]
             ELSE [ok |-> FALSE, special |-> FALSE, whole |-> 0]

\* int(value) of a float, line 137: the fraction is cut off towards zero
int_of_float(tenths) ==
    IF tenths >= 0 THEN tenths \div 10 ELSE 0 - ((0 - tenths) \div 10)

\* lines 136-137: int() of nan raises ValueError, of inf OverflowError, and
\* nothing around it catches them
normalize_raises(value) == value.kind \in {"nan", "inf"}

\* lines 134-150 with the time of the call where the code falls back to 0
normalize_timestamp_ms_now(value) ==
    CASE value.kind = "none" -> data_now
      [] value.kind = "int" -> value.v
      [] value.kind = "float" -> int_of_float(value.v)
      [] value.kind = "numstr" -> value.v
      [] value.kind = "str" ->
            LET number == float_of_string(value.chars)
            IN  IF number.ok /\ ~number.special THEN number.whole ELSE data_now
      [] value.kind = "iso" -> value.v - utc_offset
      [] OTHER -> data_now

\* normalize_timestamp_ms, lines 134-150, on these values
normalize_timestamp_ms(value) ==
    CASE value.kind = "none" -> 0
      [] value.kind = "int" -> value.v
      [] value.kind = "float" -> int_of_float(value.v)
      [] value.kind = "numstr" -> value.v
      [] value.kind = "str" ->
            LET number == float_of_string(value.chars)
            IN  IF number.ok /\ ~number.special THEN number.whole ELSE 0
      [] value.kind = "iso" -> value.v - utc_offset
      [] OTHER -> 0

NoRequest == [handler |-> "none", target_name |-> "t1", host |-> "h1",
              avg_response_time |-> 0, sample |-> 0, last_status |-> DOWN,
              disconnect_time |-> TsNone, timestamp_ms |-> 0]

IdleThread == [pc |-> "idle", req |-> NoRequest, current_metrics |-> NoSnapshot,
               seen |-> EmptyMap]

EmptyStore == [ping_statistics |-> {}, disconnect_times |-> <<>>]

StoreInit ==
    /\ sqlite_lock = NoThread
    /\ db_writer = "none"
    /\ store = EmptyStore
    /\ now = 1
    /\ threads = [i \in Threads |-> IdleThread]
    /\ nreq = 0
    /\ response = 0

\* main(), lines 1741-1744: prometheus_mode comes from the configuration
CollectorInit ==
    /\ CacheInit
    /\ StoreInit
    /\ prometheus_mode \in BOOLEAN

\* `with lock:` can enter when no thread holds the lock
CanAcquireAlways(lock) == TRUE

CanAcquire(lock) == lock = NoThread

\* the holder of a lock after thread i leaves its `with` block
NotReleased(i) == i

Released(i) == NoThread

\* a request or call goes to a thread that is free; the threads are alike, the
\* first free one takes it
Free(i) == threads[i].pc = "idle" /\ \A j \in Threads : j < i => threads[j].pc # "idle"

\* what a reading of the wall clock can return: time does not go back
ClockReads == {t \in {now, now + 1} : t <= 1 + MaxTicks}

\* the request thread i takes up request r at time t
Receive(i, first_pc, r, t) ==
    /\ Free(i)
    /\ nreq < MaxRequests
    /\ nreq' = nreq + 1
    /\ now' = t
    /\ threads' = [threads EXCEPT ![i] = [IdleThread EXCEPT !.pc = first_pc, !.req = r]]
    /\ UNCHANGED response

\* thread i calls a method of the cache directly
Call(i, first_pc, r) ==
    /\ Free(i)
    /\ nreq < MaxConcurrentCalls
    /\ nreq' = nreq + 1
    /\ threads' = [threads EXCEPT ![i] =
          [IdleThread EXCEPT !.pc = first_pc, !.req = [r EXCEPT !.handler = "caller"]]]
    /\ UNCHANGED <<now, response>>

\* the handler of thread i returns a response with this status code
Respond(i, code) ==
    /\ threads' = [threads EXCEPT ![i] = IdleThread]
    /\ response' = code

Goto(i, next_pc) ==
    /\ threads' = [threads EXCEPT ![i].pc = next_pc]
    /\ UNCHANGED response

\* where thread i goes on when a cache method returns: the caller of
\* update_ping_time is line 1371, of update_status line 1374, of
\* increment_disconnect line 1442, of get_and_clear and get_copy lines
\* 1243 and 1245, of clear line 1034
After(handler, method) ==
    CASE handler = "report_statistics" /\ method = "update_ping_time" -> "ust"
      [] handler = "report_statistics" /\ method = "update_status" -> "rs_lock"
      [] handler = "report_disconnects" -> "rd_lock"
      [] handler = "metrics" -> "m_lock"
      [] handler = "admin_reset_database" -> "ar_respond"
      [] handler = "caller" /\ method \in {"get_copy", "get_and_clear"} -> "caller_holds"
      [] OTHER -> "idle"

Return(i, method) ==
    LET next_pc == After(threads[i].req.handler, method)
    IN  /\ threads' = [threads EXCEPT ![i] =
              IF next_pc = "idle" THEN IdleThread ELSE [@ EXCEPT !.pc = next_pc]]
        /\ UNCHANGED response

\* the snapshots that threads hold
HeldRefs == UNION {SnapRefs(threads[j].current_metrics) : j \in Threads}

SamplesIn(view) == UNION {Range(view[t].ping_times) : t \in DOMAIN view}

\* ---- MetricsCache methods, statement by statement ----
\* a statement of a cache method finds the entry gone: KeyError leaves the
\* `with` block and reaches the except clause of the handler (500)
KeyError(i) ==
    /\ cache_lock' = Released(i)
    /\ Respond(i, 500)
    /\ UNCHANGED <<metrics, heap>>

\* update_ping_time lines 199-206
UptCreate(i) ==
    /\ threads[i].pc = "upt_create"
    /\ CanAcquire(cache_lock)
    /\ cache_lock' = i
    /\ LET r == threads[i].req
           C == upt_create(Cache, r.target_name, r.host)
       IN  /\ metrics' = C.m
           /\ heap' = C.h
           /\ lin' = update_ping_time(lin, r.target_name, r.host, r.sample)
    /\ Goto(i, "upt_append")
    /\ UNCHANGED <<prometheus_mode, sqlite_lock, db_writer, store, now, nreq,
                   drained, passed, seq>>
    /\ UNCHANGED proberVars
    /\ UNCHANGED readVars

\* update_ping_time line 207
UptAppend(i) ==
    /\ threads[i].pc = "upt_append"
    /\ LET r == threads[i].req
       IN  IF r.target_name \in DOMAIN metrics
           THEN LET C == upt_append(Cache, r.target_name, r.sample)
                IN  /\ metrics' = C.m
                    /\ heap' = C.h
                    /\ Goto(i, "upt_host")
                    /\ UNCHANGED cache_lock
           ELSE KeyError(i)
    /\ UNCHANGED <<prometheus_mode, sqlite_lock, db_writer, store, now, nreq, lin,
                   drained, passed, seq>>
    /\ UNCHANGED proberVars
    /\ UNCHANGED readVars

\* update_ping_time line 208
UptHost(i) ==
    /\ threads[i].pc = "upt_host"
    /\ LET r == threads[i].req
       IN  IF r.target_name \in DOMAIN metrics
           THEN LET C == upt_host(Cache, r.target_name, r.host)
                IN  /\ metrics' = C.m
                    /\ heap' = C.h
                    /\ Goto(i, "upt_status")
                    /\ UNCHANGED cache_lock
           ELSE KeyError(i)
    /\ UNCHANGED <<prometheus_mode, sqlite_lock, db_writer, store, now, nreq, lin,
                   drained, passed, seq>>
    /\ UNCHANGED proberVars
    /\ UNCHANGED readVars

\* update_ping_time line 209 and the end of its `with` block
UptStatus(i) ==
    /\ threads[i].pc = "upt_status"
    /\ LET r == threads[i].req
       IN  IF r.target_name \in DOMAIN metrics
           THEN LET C == upt_status(Cache, r.target_name)
                IN  /\ metrics' = C.m
                    /\ heap' = C.h
                    /\ cache_lock' = Released(i)
                    /\ passed' = passed \cup {r.sample}
                    /\ Return(i, "update_ping_time")
           ELSE KeyError(i) /\ UNCHANGED passed
    /\ UNCHANGED <<prometheus_mode, sqlite_lock, db_writer, store, now, nreq, lin,
                   drained, seq>>
    /\ UNCHANGED proberVars
    /\ UNCHANGED readVars

\* update_status lines 213-222
UpdateStatus(i) ==
    /\ threads[i].pc = "ust"
    /\ CanAcquire(cache_lock)
    /\ cache_lock' = Released(i)
    /\ LET r == threads[i].req
           C == update_status(Cache, r.target_name, r.host, r.last_status)
       IN  /\ metrics' = C.m
           /\ heap' = C.h
           /\ lin' = update_status(lin, r.target_name, r.host, r.last_status)
    /\ Return(i, "update_status")
    /\ UNCHANGED <<prometheus_mode, sqlite_lock, db_writer, store, now, nreq,
                   drained, passed, seq>>
    /\ UNCHANGED proberVars
    /\ UNCHANGED readVars

\* increment_disconnect lines 226-235
IncCount(i) ==
    /\ threads[i].pc = "inc_count"
    /\ CanAcquire(cache_lock)
    /\ LET r == threads[i].req
           C == inc_count(Cache, r.target_name, r.host)
       IN  /\ metrics' = C.m
           /\ heap' = C.h
           /\ lin' = increment_disconnect(lin, r.target_name, r.host)
           /\ IF r.target_name \in DOMAIN metrics
              THEN cache_lock' = i /\ Goto(i, "inc_status")
              ELSE cache_lock' = Released(i) /\ Return(i, "increment_disconnect")
    /\ UNCHANGED <<prometheus_mode, sqlite_lock, db_writer, store, now, nreq,
                   drained, passed, seq>>
    /\ UNCHANGED proberVars
    /\ UNCHANGED readVars

\* increment_disconnect line 236 and the end of its `with` block
IncStatus(i) ==
    /\ threads[i].pc = "inc_status"
    /\ LET r == threads[i].req
       IN  IF r.target_name \in DOMAIN metrics
           THEN LET C == inc_status(Cache, r.target_name)
                IN  /\ metrics' = C.m
                    /\ heap' = C.h
                    /\ cache_lock' = Released(i)
                    /\ Return(i, "increment_disconnect")
           ELSE KeyError(i)
    /\ UNCHANGED <<prometheus_mode, sqlite_lock, db_writer, store, now, nreq, lin,
                   drained, passed, seq>>
    /\ UNCHANGED proberVars
    /\ UNCHANGED readVars

\* get_and_clear lines 240-241: result = copy.deepcopy(self.metrics)
GacCopy(i) ==
    /\ threads[i].pc = "gac_copy"
    /\ CanAcquire(cache_lock)
    /\ cache_lock' = i
    /\ LET result == deepcopy(Cache)
           got == SamplesIn(SnapView(result, heap))
       IN  /\ threads' = [threads EXCEPT ![i].pc = "gac_clear",
                                         ![i].current_metrics = result,
                                         ![i].seen = View(lin)]
           /\ drained' = [x \in (DOMAIN drained) \cup got |->
                            (IF x \in DOMAIN drained THEN drained[x] ELSE 0)
                            + (IF x \in got THEN 1 ELSE 0)]
    /\ lin' = NewCache
    /\ UNCHANGED <<prometheus_mode, metrics, heap, sqlite_lock, db_writer, store, now,
                   nreq, response, passed, seq>>
    /\ UNCHANGED proberVars
    /\ UNCHANGED readVars

\* get_and_clear lines 242-243: self.metrics = {}; return result
GacClear(i) ==
    /\ threads[i].pc = "gac_clear"
    /\ LET C == clear(Cache, HeldRefs)
       IN  /\ metrics' = C.m
           /\ heap' = C.h
    /\ cache_lock' = Released(i)
    /\ Return(i, "get_and_clear")
    /\ UNCHANGED <<prometheus_mode, sqlite_lock, db_writer, store, now, nreq, lin,
                   drained, passed, seq>>
    /\ UNCHANGED proberVars
    /\ UNCHANGED readVars

\* get_copy lines 247-248
GetCopy(i) ==
    /\ threads[i].pc = "gc_copy"
    /\ CanAcquire(cache_lock)
    /\ cache_lock' = Released(i)
    /\ threads' = [threads EXCEPT ![i].pc = After(threads[i].req.handler, "get_copy"),
                                  ![i].current_metrics = get_copy(Cache),
                                  ![i].seen = View(lin)]
    /\ UNCHANGED <<prometheus_mode, metrics, heap, sqlite_lock, db_writer, store, now,
                   nreq, response, lin, drained, passed, seq>>
    /\ UNCHANGED proberVars
    /\ UNCHANGED readVars

\* clear lines 252-253
Clear(i) ==
    /\ threads[i].pc = "clear"
    /\ CanAcquire(cache_lock)
    /\ cache_lock' = Released(i)
    /\ LET C == clear(Cache, HeldRefs)
       IN  /\ metrics' = C.m
           /\ heap' = C.h
    /\ lin' = NewCache
    /\ Return(i, "clear")
    /\ UNCHANGED <<prometheus_mode, sqlite_lock, db_writer, store, now, nreq,
                   drained, passed, seq>>
    /\ UNCHANGED proberVars
    /\ UNCHANGED readVars

\* ---- threads that call the cache methods directly ----
\* every sample passed is a value of its own: the number of the call
call_update_ping_time(i) ==
    /\ \E t \in Monitored, host \in Hosts :
          Call(i, "upt_create", [NoRequest EXCEPT !.target_name = t, !.host = host,
                                                  !.sample = nreq + 1])
    /\ UNCHANGED <<prometheus_mode, cache_lock, metrics, heap, sqlite_lock, db_writer,
                   store, lin, drained, passed, seq>>
    /\ UNCHANGED proberVars
    /\ UNCHANGED readVars

call_update_status(i) ==
    /\ \E t \in Monitored, host \in Hosts, status \in {DOWN, UP} :
          Call(i, "ust", [NoRequest EXCEPT !.target_name = t, !.host = host,
                                           !.last_status = status])
    /\ UNCHANGED <<prometheus_mode, cache_lock, metrics, heap, sqlite_lock, db_writer,
                   store, lin, drained, passed, seq>>
    /\ UNCHANGED proberVars
    /\ UNCHANGED readVars

call_increment_disconnect(i) ==
    /\ \E t \in Monitored, host \in Hosts :
          Call(i, "inc_count", [NoRequest EXCEPT !.target_name = t, !.host = host])
    /\ UNCHANGED <<prometheus_mode, cache_lock, metrics, heap, sqlite_lock, db_writer,
                   store, lin, drained, passed, seq>>
    /\ UNCHANGED proberVars
    /\ UNCHANGED readVars

call_get_and_clear(i) ==
    /\ Call(i, "gac_copy", NoRequest)
    /\ UNCHANGED <<prometheus_mode, cache_lock, metrics, heap, sqlite_lock, db_writer,
                   store, lin, drained, passed, seq>>
    /\ UNCHANGED proberVars
    /\ UNCHANGED readVars

call_get_copy(i) ==
    /\ Call(i, "gc_copy", NoRequest)
    /\ UNCHANGED <<prometheus_mode, cache_lock, metrics, heap, sqlite_lock, db_writer,
                   store, lin, drained, passed, seq>>
    /\ UNCHANGED proberVars
    /\ UNCHANGED readVars

call_clear(i) ==
    /\ Call(i, "clear", NoRequest)
    /\ UNCHANGED <<prometheus_mode, cache_lock, metrics, heap, sqlite_lock, db_writer,
                   store, lin, drained, passed, seq>>
    /\ UNCHANGED proberVars
    /\ UNCHANGED readVars

\* the caller is done with the snapshot it was returned
CallerDrops(i) ==
    /\ threads[i].pc = "caller_holds"
    /\ threads' = [threads EXCEPT ![i] = IdleThread]
    /\ UNCHANGED <<prometheus_mode, cache_lock, metrics, heap, sqlite_lock, db_writer,
                   store, now, nreq, response, lin, drained, passed, seq>>
    /\ UNCHANGED proberVars
    /\ UNCHANGED readVars

\* ---- POST /api/report/statistics ----
\* the avg_response_time of a report: absent or 0, or a positive number
Avgs == {0, 2}

\* report_statistics line 1371: avg_response_time * 1000
ToMs(avg_response_time) == avg_response_time * 1000

\* report_statistics lines 1352-1370: validation, the fields, the timestamp
report_statistics(i) ==
    /\ \E valid \in BOOLEAN :
          IF ~valid
          THEN /\ Free(i)
               /\ nreq < MaxRequests
               /\ nreq' = nreq + 1
               /\ Respond(i, 400)
               /\ UNCHANGED now
          ELSE \E t \in Monitored, host \in Hosts, avg \in Avgs, st \in {DOWN, UP},
                  ms \in ClockReads :
                 Receive(i, IF Truthy(avg) THEN "upt_create" ELSE "ust",
                         [NoRequest EXCEPT !.handler = "report_statistics",
                                           !.target_name = t, !.host = host,
                                           !.avg_response_time = avg,
                                           !.sample = ToMs(avg),
                                           !.last_status = st,
                                           !.timestamp_ms = ms], ms)
    /\ UNCHANGED <<prometheus_mode, cache_lock, metrics, heap, sqlite_lock, db_writer,
                   store, lin, drained, passed, seq>>
    /\ UNCHANGED proberVars
    /\ UNCHANGED readVars

\* the position inside the block that follows
StoreEntry == [rs_lock |-> "rs_insert", rd_lock |-> "rd_insert", m_lock |-> "m_query",
               ad_lock |-> "ad_query", ts_lock |-> "ts_query", td_lock |-> "td_query"]

\* `with sqlite_lock:` lines 578, 1276, 1377, 1445, 1481, 1523
AcquireSqliteLock(i) ==
    /\ threads[i].pc \in DOMAIN StoreEntry
    /\ CanAcquire(sqlite_lock)
    /\ sqlite_lock' = i
    /\ Goto(i, StoreEntry[threads[i].pc])
    /\ UNCHANGED <<prometheus_mode, cache_lock, metrics, heap, db_writer, store, now,
                   nreq, lin, drained, passed, seq>>
    /\ UNCHANGED proberVars
    /\ UNCHANGED readVars

\* report_statistics lines 1378-1396: INSERT INTO ping_statistics (of a row, the
\* key columns are kept); the table has UNIQUE(target_name, timestamp) (line
\* 379); an exception leaves the `with` block and reaches the except clause of
\* line 1408
RsInsert(i) ==
    /\ threads[i].pc = "rs_insert"
    /\ LET r == threads[i].req
           row == [target_name |-> r.target_name, timestamp |-> r.timestamp_ms]
       IN  IF \/ db_writer = "admin"
              \/ \E old \in store.ping_statistics :
                    old.target_name = row.target_name /\ old.timestamp = row.timestamp
           THEN /\ sqlite_lock' = Released(i)
                /\ Respond(i, 500)
                /\ UNCHANGED <<store, db_writer>>
           ELSE /\ store' = [store EXCEPT !.ping_statistics = @ \cup {row}]
                /\ db_writer' = "main"
                /\ Goto(i, "rs_commit")
                /\ UNCHANGED sqlite_lock
    /\ UNCHANGED <<prometheus_mode, cache_lock, metrics, heap, now, nreq, lin,
                   drained, passed, seq>>
    /\ UNCHANGED proberVars
    /\ UNCHANGED readVars

\* report_statistics lines 1398-1406: commit, leave the block, 201
RsCommit(i) ==
    /\ threads[i].pc = "rs_commit"
    /\ db_writer' = "none"
    /\ sqlite_lock' = Released(i)
    /\ Respond(i, 201)
    /\ UNCHANGED <<prometheus_mode, cache_lock, metrics, heap, store, now, nreq, lin,
                   drained, passed, seq>>
    /\ UNCHANGED proberVars
    /\ UNCHANGED readVars

\* ---- POST /api/report/disconnects ----
\* report_disconnects lines 1427-1439
report_disconnects(i) ==
    /\ \E valid \in BOOLEAN :
          IF ~valid
          THEN /\ Free(i)
               /\ nreq < MaxRequests
               /\ nreq' = nreq + 1
               /\ Respond(i, 400)
               /\ UNCHANGED now
          ELSE \E t \in Monitored, host \in Hosts, ms \in ClockReads :
               \E dt \in {TsInt(ms), TsText} :
                 Receive(i, "inc_count",
                         [NoRequest EXCEPT !.handler = "report_disconnects",
                                           !.target_name = t, !.host = host,
                                           !.disconnect_time = dt,
                                           !.timestamp_ms = ms], ms)
    /\ UNCHANGED <<prometheus_mode, cache_lock, metrics, heap, sqlite_lock, db_writer,
                   store, lin, drained, passed, seq>>
    /\ UNCHANGED proberVars
    /\ UNCHANGED readVars

\* report_disconnects lines 1446-1458: INSERT INTO disconnect_times
RdInsert(i) ==
    /\ threads[i].pc = "rd_insert"
    /\ LET r == threads[i].req
           row == [target_name |-> r.target_name,
                   disconnect_time |-> normalize_timestamp_ms(r.disconnect_time)]
       IN  IF db_writer = "admin"
           THEN /\ sqlite_lock' = Released(i)
                /\ Respond(i, 500)
                /\ UNCHANGED <<store, db_writer>>
           ELSE /\ store' = [store EXCEPT !.disconnect_times = Append(@, row)]
                /\ db_writer' = "main"
                /\ Goto(i, "rd_commit")
                /\ UNCHANGED sqlite_lock
    /\ UNCHANGED <<prometheus_mode, cache_lock, metrics, heap, now, nreq, lin,
                   drained, passed, seq>>
    /\ UNCHANGED proberVars
    /\ UNCHANGED readVars

\* report_disconnects lines 1460-1467
RdCommit(i) ==
    /\ threads[i].pc = "rd_commit"
    /\ db_writer' = "none"
    /\ sqlite_lock' = Released(i)
    /\ Respond(i, 201)
    /\ UNCHANGED <<prometheus_mode, cache_lock, metrics, heap, store, now, nreq, lin,
                   drained, passed, seq>>
    /\ UNCHANGED proberVars
    /\ UNCHANGED readVars

\* ---- GET /metrics ----
\* metrics line 1242: drain or persist
metrics_scrape(i) ==
    /\ \E ms \in ClockReads :
          Receive(i, IF prometheus_mode THEN "gac_copy" ELSE "gc_copy",
                  [NoRequest EXCEPT !.handler = "metrics"], ms)
    /\ UNCHANGED <<prometheus_mode, cache_lock, metrics, heap, sqlite_lock, db_writer,
                   store, lin, drained, passed, seq>>
    /\ UNCHANGED proberVars
    /\ UNCHANGED readVars

\* metrics lines 1277-1295: the disconnect counts per period, read from the table
MQuery(i) ==
    /\ threads[i].pc = "m_query"
    /\ sqlite_lock' = Released(i)
    /\ Goto(i, "m_respond")
    /\ UNCHANGED <<prometheus_mode, cache_lock, metrics, heap, db_writer, store, now,
                   nreq, lin, drained, passed, seq>>
    /\ UNCHANGED proberVars
    /\ UNCHANGED readVars

\* metrics lines 1297-1327: the lines of the response, from current_metrics
MRespond(i) ==
    /\ threads[i].pc = "m_respond"
    /\ Respond(i, 200)
    /\ UNCHANGED <<prometheus_mode, cache_lock, metrics, heap, sqlite_lock, db_writer,
                   store, now, nreq, lin, drained, passed, seq>>
    /\ UNCHANGED proberVars
    /\ UNCHANGED readVars

\* ---- GET /api/data ----
\* api_data lines 540-576
api_data(i) ==
    /\ \E ms \in ClockReads :
          Receive(i, "ad_lock", [NoRequest EXCEPT !.handler = "api_data"], ms)
    /\ UNCHANGED <<prometheus_mode, cache_lock, metrics, heap, sqlite_lock, db_writer,
                   store, lin, drained, passed, seq>>
    /\ UNCHANGED proberVars
    /\ UNCHANGED readVars

\* api_data lines 579-616: the three SELECTs, then the response
AdQuery(i) ==
    /\ threads[i].pc = "ad_query"
    /\ sqlite_lock' = Released(i)
    /\ Respond(i, 200)
    /\ UNCHANGED <<prometheus_mode, cache_lock, metrics, heap, db_writer, store, now,
                   nreq, lin, drained, passed, seq>>
    /\ UNCHANGED proberVars
    /\ UNCHANGED readVars

\* ---- GET /api/statistics/<target_name>, GET /api/disconnects/<target_name> ----
\* get_target_statistics line 1480, get_target_disconnects line 1522
get_target_rows(i) ==
    /\ \E t \in Monitored, first_pc \in {"ts_lock", "td_lock"}, ms \in ClockReads :
          Receive(i, first_pc,
                  [NoRequest EXCEPT !.handler = "get_target", !.target_name = t], ms)
    /\ UNCHANGED <<prometheus_mode, cache_lock, metrics, heap, sqlite_lock, db_writer,
                   store, lin, drained, passed, seq>>
    /\ UNCHANGED proberVars
    /\ UNCHANGED readVars

\* get_target_statistics lines 1482-1509: 404 when there is no row
TsQuery(i) ==
    /\ threads[i].pc = "ts_query"
    /\ sqlite_lock' = Released(i)
    /\ IF \E row \in store.ping_statistics : row.target_name = threads[i].req.target_name
       THEN Respond(i, 200)
       ELSE Respond(i, 404)
    /\ UNCHANGED <<prometheus_mode, cache_lock, metrics, heap, db_writer, store, now,
                   nreq, lin, drained, passed, seq>>
    /\ UNCHANGED proberVars
    /\ UNCHANGED readVars

\* get_target_disconnects lines 1524-1549
TdQuery(i) ==
    /\ threads[i].pc = "td_query"
    /\ sqlite_lock' = Released(i)
    /\ Respond(i, 200)
    /\ UNCHANGED <<prometheus_mode, cache_lock, metrics, heap, db_writer, store, now,
                   nreq, lin, drained, passed, seq>>
    /\ UNCHANGED proberVars
    /\ UNCHANGED readVars

\* ---- POST /api/admin/database/reset ----
\* admin_reset_database line 1030, AdminManager.reset_database lines 545-546:
\* a connection of its own, outside sqlite_lock
admin_reset_database(i) ==
    /\ \E ms \in ClockReads :
          Receive(i, "ar_delete_stats",
                  [NoRequest EXCEPT !.handler = "admin_reset_database"], ms)
    /\ UNCHANGED <<prometheus_mode, cache_lock, metrics, heap, sqlite_lock, db_writer,
                   store, lin, drained, passed, seq>>
    /\ UNCHANGED proberVars
    /\ UNCHANGED readVars

\* reset_database line 549: DELETE FROM ping_statistics; the database file is
\* locked while the other connection has an uncommitted write (lines 556-557,
\* then 1037-1039: 400)
ArDeleteStats(i) ==
    /\ threads[i].pc = "ar_delete_stats"
    /\ IF db_writer = "main"
       THEN Respond(i, 400) /\ UNCHANGED db_writer
       ELSE db_writer' = "admin" /\ Goto(i, "ar_delete_disc")
    /\ UNCHANGED <<prometheus_mode, cache_lock, metrics, heap, sqlite_lock, store, now,
                   nreq, lin, drained, passed, seq>>
    /\ UNCHANGED proberVars
    /\ UNCHANGED readVars

\* reset_database line 550: DELETE FROM disconnect_times
ArDeleteDisc(i) ==
    /\ threads[i].pc = "ar_delete_disc"
    /\ Goto(i, "ar_commit")
    /\ UNCHANGED <<prometheus_mode, cache_lock, metrics, heap, sqlite_lock, db_writer,
                   store, now, nreq, lin, drained, passed, seq>>
    /\ UNCHANGED proberVars
    /\ UNCHANGED readVars

\* reset_database lines 552-555: commit, close; then admin_reset_database
\* line 1034 calls metrics_cache.clear()
ArCommit(i) ==
    /\ threads[i].pc = "ar_commit"
    /\ store' = EmptyStore
    /\ db_writer' = "none"
    /\ Goto(i, "clear")
    /\ UNCHANGED <<prometheus_mode, cache_lock, metrics, heap, sqlite_lock, now,
                   nreq, lin, drained, passed, seq>>
    /\ UNCHANGED proberVars
    /\ UNCHANGED readVars

\* admin_reset_database lines 1035-1036: 200
ArRespond(i) ==
    /\ threads[i].pc = "ar_respond"
    /\ Respond(i, 200)
    /\ UNCHANGED <<prometheus_mode, cache_lock, metrics, heap, sqlite_lock, db_writer,
                   store, now, nreq, lin, drained, passed, seq>>
    /\ UNCHANGED proberVars
    /\ UNCHANGED readVars

\* ---- PUT /api/admin/prometheus/mode ----
\* admin_prometheus_mode lines 962-969
admin_prometheus_mode(i) ==
    /\ Free(i)
    /\ nreq < MaxRequests
    /\ nreq' = nreq + 1
    /\ \E enabled \in BOOLEAN : prometheus_mode' = enabled
    /\ Respond(i, 200)
    /\ UNCHANGED <<cache_lock, metrics, heap, sqlite_lock, db_writer, store, now,
                   lin, drained, passed, seq>>
    /\ UNCHANGED proberVars
    /\ UNCHANGED readVars

(***************************************************************************)
(* Trend line and outlier filtering (webserver.py)                         *)
(***************************************************************************)
MaxPoints == 4
MaxBaseline == 3

\* the coordinates and thresholds of the series tried
Xs == 0..2
Ys == {0, 10}
Thresholds == {0, 5}

Abs(v) == IF v < 0 THEN 0 - v ELSE v

\* the list positions of a set of 0-based indices, ascending: sorted(indices)
RECURSIVE Sorted(_)
Sorted(indices) ==
    IF indices = {} THEN <<>>
    ELSE LET least == CHOOSE i \in indices : \A j \in indices : i <= j
         IN  <<least>> \o Sorted(indices \ {least})

\* calculate_trend_line, lines 43-61; slope and intercept are kept exact:
\* slope = slope_num / denominator,
\* intercept = (sum_y - slope * sum_x) / n
NoTrend == [ok |-> FALSE, n |-> 0, slope_num |-> 0, denominator |-> 1,
            sum_x |-> 0, sum_y |-> 0]

calculate_trend_line(points) ==
    IF Len(points) < 2 THEN NoTrend
    ELSE LET n == Len(points)
             sum_x == SeqSum([i \in 1..n |-> points[i].x])
             sum_y == SeqSum([i \in 1..n |-> points[i].y])
             sum_xy == SeqSum([i \in 1..n |-> points[i].x * points[i].y])
             sum_x2 == SeqSum([i \in 1..n |-> points[i].x * points[i].x])
             denominator == n * sum_x2 - sum_x * sum_x
         IN  IF denominator = 0 THEN NoTrend
             ELSE [ok |-> TRUE, n |-> n, slope_num |-> n * sum_xy - sum_x * sum_y,
                   denominator |-> denominator, sum_x |-> sum_x, sum_y |-> sum_y]

\* get_trend_value, lines 64-66: slope * x + intercept, as the fraction num / den
\* (den = n * denominator is positive)
get_trend_value(x, trend) ==
    [num |-> trend.slope_num * x * trend.n + trend.sum_y * trend.denominator
             - trend.slope_num * trend.sum_x,
     den |-> trend.n * trend.denominator]

\* lines 109-113 without the abs(): only points above the trend line
IsOutlierAbove(point, trend, outlier_threshold) ==
    LET trend_value == get_trend_value(point.x, trend)
    IN  point.y * trend_value.den - trend_value.num > outlier_threshold * trend_value.den

\* lines 109-113: abs(point['y'] - trend_value) > outlier_threshold
IsOutlier(point, trend, outlier_threshold) ==
    LET trend_value == get_trend_value(point.x, trend)
    IN  Abs(point.y * trend_value.den - trend_value.num)
           > outlier_threshold * trend_value.den

\* lines 93-104 without line 104: the last point is not added
baseline_indices_without_last(len, baseline_points) ==
    {index \in {(i * len) \div baseline_points : i \in 0..(baseline_points - 1)} :
        index < len} \cup {0}

\* lines 93-104: int(i * (len / baseline_points)) for i in range(baseline_points),
\* then the first and the last index (indices count from 0)
baseline_indices(len, baseline_points) ==
    {index \in {(i * len) \div baseline_points : i \in 0..(baseline_points - 1)} :
        index < len} \cup {0, len - 1}

\* lines 107-114: the interior points away from the trend line
outlier_indices(points, trend, outlier_threshold) ==
    {i \in 1..(Len(points) - 2) : IsOutlier(points[i + 1], trend, outlier_threshold)}

\* filter_points_by_trend, lines 81-122
filter_points_by_trend(points, baseline_points, outlier_threshold) ==
    IF Len(points) < 2 THEN points
    ELSE IF Len(points) <= baseline_points THEN points
    ELSE LET trend == calculate_trend_line(points)
         IN  IF ~trend.ok THEN points
             ELSE LET selected_indices ==
                          baseline_indices(Len(points), baseline_points)
                          \cup outlier_indices(points, trend, outlier_threshold)
                      order == Sorted(selected_indices)
                  IN  [k \in 1..Len(order) |-> points[order[k] + 1]]

\* the series of length at most n over the coordinates tried
RECURSIVE SeriesUpTo(_)
SeriesUpTo(n) ==
    IF n = 0 THEN {<<>>}
    ELSE LET shorter == SeriesUpTo(n - 1)
         IN  shorter \cup {Append(s, [x |-> x, y |-> y]) :
                              s \in {t \in shorter : Len(t) = n - 1}, x \in Xs, y \in Ys}

\* 40 evenly spaced points with one spike of +50 at index 21, which is not one
\* of the 20 baseline indices
SpikeSeries == [i \in 1..40 |-> [x |-> i - 1, y |-> IF i - 1 = 21 THEN 50 ELSE 0]]

NoCall == [calls |-> 0, input |-> <<>>, points |-> <<>>]

TrendIdle ==
    /\ trend_in = [points |-> <<>>, baseline_points |-> 1, outlier_threshold |-> 0]
    /\ trend_out = NoCall

TrendInit ==
    /\ \/ \E points \in SeriesUpTo(MaxPoints), baseline_points \in 1..MaxBaseline,
            outlier_threshold \in Thresholds :
            trend_in = [points |-> points, baseline_points |-> baseline_points,
                        outlier_threshold |-> outlier_threshold]
       \/ trend_in = [points |-> SpikeSeries, baseline_points |-> 20,
                      outlier_threshold |-> 5]
    /\ trend_out = NoCall

\* a call of filter_points_by_trend: the first on the series, a further one on
\* the list the call before returned, with the same parameters
FilterPoints ==
    /\ trend_out.calls < 2
    /\ LET input == IF trend_out.calls = 0 THEN trend_in.points ELSE trend_out.points
       IN  trend_out' = [calls |-> trend_out.calls + 1, input |-> input,
                         points |-> filter_points_by_trend(input, trend_in.baseline_points,
                                                           trend_in.outlier_threshold)]
    /\ UNCHANGED <<trend_in, tables, utc_offset, data_now, reply, norm>>
    /\ UNCHANGED proberVars
    /\ UNCHANGED collectorVars

NextTrend == FilterPoints

(***************************************************************************)
(* The read handlers of the collector over the stored rows (webserver.py). *)
(* Times are counted in hours since the epoch: the factors between hours,  *)
(* seconds and milliseconds are left out.  The response times of a summary *)
(* and its jitter are in hundredths, as round(..., 2) leaves them.         *)
(***************************************************************************)
MaxRows == 2

\* datetime.now() of the read requests, line 583, in hours since the epoch:
\* more than 30 days after it
ReadClock == 800

\* what the tables can hold: rows stored by the ingest handlers carry integer
\* timestamps, rows of older versions numeric strings or ISO-8601 text
StoredStamps == {TsInt(780), TsInt(800), TsIso(777)}
StoredDisconnectTimes == {TsInt(800), TsIso(777), TsNumStr(780)}
\* total_pings, successful_pings and last_status of a report cycle, and its
\* avg, min and max response time: the status is that of the cycle's last
\* ping, the times are NULL (NONE) for a cycle without a sample
Cycles == {<<30, 30, UP, 2, 1, 4>>, <<30, 27, UP, 4, 2, 8>>,
           <<30, 27, DOWN, 4, 2, 8>>, <<0, 0, DOWN, NONE, NONE, NONE>>}
HostOf == [t \in Targets |-> IF t = "t1" THEN "h1" ELSE "h2"]

StatRows ==
    {[target_name |-> t, host |-> HostOf[t], total_pings |-> c[1],
      successful_pings |-> c[2], failed_pings |-> c[1] - c[2],
      avg_response_time |-> c[4], min_response_time |-> c[5],
      max_response_time |-> c[6], last_status |-> c[3], timestamp |-> ts] :
        t \in Targets, c \in Cycles, ts \in StoredStamps}

DisconnectRows ==
    {[target_name |-> t, host |-> h, disconnect_time |-> ts] :
        t \in Targets, h \in Hosts, ts \in StoredDisconnectTimes}

\* the sets of at most n elements of S, the sequences of at most n elements
RECURSIVE SetsUpTo(_, _)
SetsUpTo(S, n) ==
    IF n = 0 THEN {{}}
    ELSE LET smaller == SetsUpTo(S, n - 1)
         IN  smaller \cup {p \cup {x} : p \in smaller, x \in S}

RECURSIVE SeqsUpTo(_, _)
SeqsUpTo(S, n) ==
    IF n = 0 THEN {<<>>}
    ELSE LET shorter == SeqsUpTo(S, n - 1)
         IN  shorter \cup {Append(s, x) : s \in shorter, x \in S}

\* UNIQUE(target_name, timestamp), line 379
UniqueKey(rows) ==
    \A a, b \in rows :
        (a.target_name = b.target_name /\ a.timestamp = b.timestamp) => a = b

StoredTables ==
    UNION {{[ping_statistics |-> S, disconnect_times |-> d] :
               S \in {R \in SetsUpTo(StatRows, k) : UniqueKey(R)},
               d \in SeqsUpTo(DisconnectRows, MaxRows - k)} : k \in 0..MaxRows}

\* timestamp_ms_expr and disconnect_ms_expr, lines 555-576: integers as they
\* are; text with a '-' through strftime('%s', ...), which reads it as UTC;
\* other text through CAST(... AS INTEGER)
timestamp_ms_expr(value) ==
    CASE value.kind = "int" -> value.v
      [] value.kind = "iso" -> value.v
      [] value.kind = "numstr" -> value.v
      [] OTHER -> 0

\* lines 547-552
hours_back(time_range) ==
    CASE time_range = "1h" -> 1
      [] time_range = "30d" -> 24 * 30
      [] OTHER -> 24

Ranges == {"1h", "24h", "30d"}

\* line 583
cutoff_ms(time_range) == data_now - hours_back(time_range)

\* ORDER BY target_name compares the names
NameRank == [t \in Targets |-> IF t = "t1" THEN 1 ELSE 2]

\* the orders in which a SELECT ... ORDER BY target_name can return a set of
\* rows: rows of one target come in any order
RowOrders(rows) ==
    {f \in [1..Cardinality(rows) -> rows] :
        /\ \A i, j \in DOMAIN f : i # j => f[i] # f[j]
        /\ \A i, j \in DOMAIN f :
              i < j => NameRank[f[i].target_name] <= NameRank[f[j].target_name]}

\* lines 584-594: the statistics rows inside the window
StatsInWindow(cutoff) ==
    {row \in tables.ping_statistics : timestamp_ms_expr(row.timestamp) > cutoff}

\* lines 597-606: the disconnect rows inside the window, by position
DisconnectsInWindow(cutoff) ==
    {k \in 1..Len(tables.disconnect_times) :
        timestamp_ms_expr(tables.disconnect_times[k].disconnect_time) > cutoff}

SetMax(S) == CHOOSE m \in S : \A v \in S : v <= m

\* lines 597-603: GROUP BY target_name, host with COUNT(*) and MAX(...)
DisconnectGroups(cutoff) ==
    LET inside == DisconnectsInWindow(cutoff)
        Of(t, h) == {k \in inside : /\ tables.disconnect_times[k].target_name = t
                                    /\ tables.disconnect_times[k].host = h}
        keys == {<<tables.disconnect_times[k].target_name,
                   tables.disconnect_times[k].host>> : k \in inside}
    IN  {[target_name |-> key[1], host |-> key[2],
          disconnect_count |-> Cardinality(Of(key[1], key[2])),
          last_disconnect |->
              SetMax({timestamp_ms_expr(tables.disconnect_times[k].disconnect_time) :
                         k \in Of(key[1], key[2])})] : key \in keys}

\* lines 629-637: the entry of a target, from its first row
NewTarget(row) ==
    [name |-> row.target_name, host |-> row.host, total_pings_sum |-> 0,
     successful_pings_sum |-> 0, failed_pings_sum |-> 0, response_times |-> <<>>,
     last_status |-> row.last_status]

\* lines 644-646: row[...] or 0, a NULL and a 0 both give 0
OrZero(v) == IF Truthy(v) THEN v ELSE 0

\* lines 643-647: the tuple appended to response_times
times_of(row) ==
    <<OrZero(row.avg_response_time), OrZero(row.min_response_time),
      OrZero(row.max_response_time)>>

\* lines 640-648 with = in place of +=
accumulate_overwrites(data, row) ==
    [data EXCEPT !.total_pings_sum = row.total_pings,
                 !.successful_pings_sum = row.successful_pings,
                 !.failed_pings_sum = row.failed_pings,
                 !.response_times = Append(@, times_of(row)),
                 !.last_status = row.last_status]

\* lines 640-648: the sums over the cycles, the status of the row at hand
accumulate(data, row) ==
    [data EXCEPT !.total_pings_sum = @ + row.total_pings,
                 !.successful_pings_sum = @ + row.successful_pings,
                 !.failed_pings_sum = @ + row.failed_pings,
                 !.response_times = Append(@, times_of(row)),
                 !.last_status = row.last_status]

\* lines 624-648: the loop over stats_rows
RECURSIVE aggregate_rows(_, _)
aggregate_rows(stats_rows, targets_dict) ==
    IF stats_rows = <<>> THEN targets_dict
    ELSE LET row == Head(stats_rows)
             t == row.target_name
             data == IF t \in DOMAIN targets_dict THEN targets_dict[t] ELSE NewTarget(row)
         IN  aggregate_rows(Tail(stats_rows),
                            [u \in (DOMAIN targets_dict) \cup {t} |->
                                IF u = t THEN accumulate(data, row) ELSE targets_dict[u]])

\* line 658: successful / total * 100, kept exact as the fraction num / den
success_rate(successful, total) ==
    IF total > 0 THEN [num |-> successful * 100, den |-> total]
    ELSE [num |-> 0, den |-> 1]

\* the largest r of lo..hi with r * r <= n
RECURSIVE isqrt(_, _, _)
isqrt(n, lo, hi) ==
    IF lo >= hi THEN lo
    ELSE LET mid == (lo + hi + 1) \div 2
         IN  IF mid * mid <= n THEN isqrt(n, mid, hi) ELSE isqrt(n, lo, mid - 1)

\* round(sqrt(num / den), 2) in hundredths
RoundedRoot(num, den) ==
    LET v == (10000 * num) \div den
        q == isqrt(v, 0, IF v >= 10000 THEN v \div 100 ELSE 100)
        half == (4 * q * q + 4 * q + 1) * den
    IN  IF 40000 * num > half THEN q + 1
        ELSE IF 40000 * num < half THEN q
        ELSE IF q % 2 = 0 THEN q ELSE q + 1

\* n times the sum of the squared deviations from the mean
Deviations(xs) ==
    Len(xs) * SeqSum([k \in 1..Len(xs) |-> xs[k] * xs[k]]) - SeqSum(xs) * SeqSum(xs)

\* statistics.pstdev: the squared deviations divided by n
pstdev(xs) == RoundedRoot(Deviations(xs), Len(xs) * Len(xs))

\* statistics.stdev, line 22: the squared deviations divided by n - 1
stdev(xs) == RoundedRoot(Deviations(xs), Len(xs) * (Len(xs) - 1))

\* lines 32-39
calculate_jitter(response_times) ==
    IF Len(response_times) < 2 THEN 0 ELSE stdev(response_times)

Column(response_times, c) == [k \in 1..Len(response_times) |-> response_times[k][c]]

\* lines 655-678
final_target(data) ==
    LET rts == data.response_times
        avg_resp == IF rts # <<>> THEN Round2(SeqSum(Column(rts, 1)), Len(rts)) ELSE 0
        min_resp == IF rts # <<>> THEN SeqMin(Column(rts, 2)) * 100 ELSE 0
        max_resp == IF rts # <<>> THEN SeqMax(Column(rts, 3)) * 100 ELSE 0
    IN
    [name |-> data.name, host |-> data.host, pings |-> data.total_pings_sum,
     success_rate |-> success_rate(data.successful_pings_sum, data.total_pings_sum),
     avg_response_time |-> avg_resp, min_response_time |-> min_resp,
     max_response_time |-> max_resp,
     jitter |-> calculate_jitter(Column(rts, 1)),
     disconnect_count |-> 0,
     status |-> IF data.last_status = UP THEN "up" ELSE "down"]

\* lines 701-711: the entry of a target that has disconnects only
disconnects_only_up(row) ==
    [name |-> row.target_name, host |-> row.host, pings |-> 0,
     success_rate |-> success_rate(0, 0), avg_response_time |-> NONE,
     min_response_time |-> NONE, max_response_time |-> NONE,
     disconnect_count |-> row.disconnect_count, status |-> "up"]

disconnects_only(row) ==
    [name |-> row.target_name, host |-> row.host, pings |-> 0,
     success_rate |-> success_rate(0, 0), avg_response_time |-> NONE,
     min_response_time |-> NONE, max_response_time |-> NONE,
     disconnect_count |-> row.disconnect_count, status |-> "down"]

\* lines 686-711: the loop over disconnect_rows
RECURSIVE build_disconnects(_, _)
build_disconnects(disconnect_rows, built) ==
    IF disconnect_rows = <<>> THEN built
    ELSE LET row == Head(disconnect_rows)
             t == row.target_name
             last_dc == normalize_timestamp_ms(TsInt(row.last_disconnect))
             entry == [name |-> t, host |-> row.host,
                       disconnect_count |-> row.disconnect_count,
                       last_disconnect |-> last_dc]
             dict == built.targets_dict
         IN  build_disconnects(Tail(disconnect_rows),
                 [disconnects_data |-> Append(built.disconnects_data, entry),
                  targets_dict |->
                      [u \in (DOMAIN dict) \cup {t} |->
                          IF u # t THEN dict[u]
                          ELSE IF t \in DOMAIN dict
                               THEN [dict[t] EXCEPT !.disconnect_count = row.disconnect_count]
                               ELSE disconnects_only(row)]])

\* lines 609-616: ORDER BY target_name, ts_ms; the rows of one target, ascending
RECURSIVE timeseries_rows(_)
timeseries_rows(rows) ==
    IF rows = {} THEN <<>>
    ELSE LET first == CHOOSE r \in rows :
                         \A q \in rows : timestamp_ms_expr(r.timestamp)
                                            <= timestamp_ms_expr(q.timestamp)
         IN  <<first>> \o timeseries_rows(rows \ {first})

\* lines 724-779: the points of a target, filtered; a filtered point is traced
\* back to the first point with its x and y
timeseries_of(rows) ==
    LET ordered == timeseries_rows(rows)
        timestamps == [k \in 1..Len(ordered) |->
                          normalize_timestamp_ms(TsInt(timestamp_ms_expr(ordered[k].timestamp)))]
        points == [k \in 1..Len(ordered) |->
                      [x |-> timestamps[k],
                       y |-> IF ordered[k].avg_response_time # NONE
                             THEN ordered[k].avg_response_time ELSE 0]]
        filtered_points == filter_points_by_trend(points, 20, 5)
        filtered_indices ==
            {CHOOSE i \in 1..Len(points) :
                 /\ points[i] = filtered_points[k]
                 /\ \A j \in 1..(i - 1) : points[j] # filtered_points[k] :
                       k \in 1..Len(filtered_points)}
        order == Sorted(filtered_indices)
    IN  [timestamps |-> [k \in 1..Len(order) |-> timestamps[order[k]]]]

NoReply == [kind |-> "none", status |-> 0]

\* GET /api/data, lines 540-805: the whole handler; the store returns the rows
\* of a target, and the groups of a target, in an order of its choice
GetData ==
    /\ \E time_range \in Ranges :
       LET cutoff == cutoff_ms(time_range)
           inside == StatsInWindow(cutoff)
       IN  \E stats_rows \in RowOrders(inside),
              disconnect_rows \in RowOrders(DisconnectGroups(cutoff)) :
             LET final_targets ==
                     LET summed == aggregate_rows(stats_rows, EmptyMap)
                     IN  [t \in DOMAIN summed |-> final_target(summed[t])]
                 built == build_disconnects(disconnect_rows,
                              [disconnects_data |-> <<>>, targets_dict |-> final_targets])
                 named == {row.target_name : row \in inside}
             IN  reply' = [kind |-> "api_data", status |-> 200,
                           time_range |-> time_range, cutoff |-> cutoff,
                           targets |-> built.targets_dict,
                           disconnects |-> built.disconnects_data,
                           timeseries |->
                               [t \in named |->
                                   timeseries_of({row \in inside : row.target_name = t})],
                           total_targets |-> Cardinality(DOMAIN built.targets_dict),
                           total_disconnects |-> Len(disconnect_rows),
                           total_disconnect_events |->
                               SeqSum([k \in 1..Len(built.disconnects_data) |->
                                          built.disconnects_data[k].disconnect_count])]
    /\ UNCHANGED <<tables, utc_offset, data_now, trend_in, trend_out, norm>>
    /\ UNCHANGED proberVars
    /\ UNCHANGED collectorVars

\* ORDER BY timestamp DESC compares the stored values: in SQLite every integer
\* sorts before every text, and text sorts by its characters (epoch
\* milliseconds begin with '1', ISO-8601 dates of this century with '2')
StorageClass == [int |-> 1, numstr |-> 2, iso |-> 3]

StoredBefore(a, b) ==
    \/ StorageClass[a.kind] < StorageClass[b.kind]
    \/ a.kind = b.kind /\ a.v < b.v

\* GET /api/statistics/<target_name>, lines 1474-1513: the whole handler
GetTargetStatistics ==
    /\ \E target_name \in Targets :
       LET rows == {r \in tables.ping_statistics : r.target_name = target_name}
       IN  IF rows = {}
           THEN reply' = [kind |-> "statistics", status |-> 404,
                          target_name |-> target_name]
           ELSE LET row == CHOOSE r \in rows :
                               \A q \in rows \ {r} : StoredBefore(q.timestamp, r.timestamp)
                IN  reply' = [kind |-> "statistics", status |-> 200,
                              target_name |-> target_name, row |-> row]
    /\ UNCHANGED <<tables, utc_offset, data_now, trend_in, trend_out, norm>>
    /\ UNCHANGED proberVars
    /\ UNCHANGED collectorVars

\* the offsets of the hosts tried: UTC, and one hour ahead of UTC
UtcOffsets == {0, 1}

DataIdle ==
    /\ tables = [ping_statistics |-> {}, disconnect_times |-> <<>>]
    /\ utc_offset = 0
    /\ data_now = ReadClock
    /\ reply = NoReply

DataInit ==
    /\ tables \in StoredTables
    /\ utc_offset \in UtcOffsets
    /\ data_now = ReadClock
    /\ reply = NoReply

NextData ==
    \/ GetData
    \/ GetTargetStatistics

(***************************************************************************)
(* The collector serving one request at a time: every handler runs to its  *)
(* response before the next request arrives.  The cache is metrics and     *)
(* heap, the store is tables, the clock is data_now.                       *)
(***************************************************************************)
\* metrics lines 1259-1263: the periods of the disconnect counters, in hours
time_periods == [p \in {"1m", "1h", "24h"} |->
                    CASE p = "1m" -> 720 [] p = "1h" -> 1 [] OTHER -> 24]

\* the counters taken from the disconnect_count of the cache entries instead
disconnect_by_period_cached ==
    LET counted == {t \in DOMAIN metrics : heap[metrics[t]].disconnect_count > 0}
    IN  [key \in {<<t, heap[metrics[t]].host, p>> : t \in counted,
                                                     p \in DOMAIN time_periods} |->
            heap[metrics[key[1]]].disconnect_count]

\* metrics lines 1279-1295: per period the groups of the SELECT, keyed by
\* (target_name, host, period_label)
disconnect_by_period ==
    LET groups(p) == DisconnectGroups(data_now - time_periods[p])
        keys == UNION {{<<g.target_name, g.host, p>> : g \in groups(p)} :
                          p \in DOMAIN time_periods}
    IN  [key \in keys |->
            (CHOOSE g \in groups(key[3]) :
                g.target_name = key[1] /\ g.host = key[2]).disconnect_count]

\* GET /metrics, lines 1238-1327: the snapshot of the cache, drained in
\* prometheus mode; the counters from the store; a gauge line for every target
\* of the snapshot with ping times
GetMetrics ==
    /\ LET taken == IF prometheus_mode THEN get_and_clear(Cache)
                    ELSE [result |-> get_copy(Cache), cache |-> Cache]
           current_metrics == SnapView(taken.result, taken.cache.h)
       IN  /\ metrics' = taken.cache.m
           /\ heap' = taken.cache.h
           /\ reply' = [kind |-> "metrics", status |-> 200,
                         gauges |-> {<<t, current_metrics[t].host>> :
                                        t \in {u \in DOMAIN current_metrics :
                                                  current_metrics[u].ping_times # <<>>}},
                         cutoffs |-> [p \in DOMAIN time_periods |->
                                         data_now - time_periods[p]],
                         counters |-> disconnect_by_period]
    /\ UNCHANGED <<prometheus_mode, cache_lock, sqlite_lock, db_writer, store, now,
                   threads, nreq, response, lin, drained, passed, seq>>
    /\ UNCHANGED <<tables, utc_offset, data_now, trend_in, trend_out, norm>>
    /\ UNCHANGED proberVars

\* POST /api/report/statistics, lines 1333-1410: 400 for a missing field;
\* the cache is updated, then the row is inserted with the time of the clock;
\* a row of the same target and time makes the INSERT fail, and the answer 500
PostStatistics ==
    /\ nreq < MaxRequests
    /\ nreq' = nreq + 1
    /\ \E valid \in BOOLEAN :
          IF ~valid
          THEN /\ reply' = [kind |-> "report_statistics", status |-> 400]
               /\ UNCHANGED <<metrics, heap, tables, data_now>>
          ELSE \E t \in Monitored, avg \in Avgs, st \in {DOWN, UP},
                  timestamp_ms \in {data_now, data_now + 1} :
               LET host == HostOf[t]
                   timed == IF Truthy(avg)
                            THEN update_ping_time(Cache, t, host, ToMs(avg))
                            ELSE Cache
                   updated == update_status(timed, t, host, st)
                   row == [target_name |-> t, host |-> host, total_pings |-> 30,
                           successful_pings |-> 27, failed_pings |-> 3,
                           avg_response_time |-> avg,
                           min_response_time |-> IF Truthy(avg) THEN avg ELSE NONE,
                           max_response_time |-> IF Truthy(avg) THEN avg ELSE NONE,
                           last_status |-> st,
                           timestamp |-> TsInt(timestamp_ms)]
                   duplicate == \E old \in tables.ping_statistics :
                                   /\ old.target_name = t
                                   /\ old.timestamp = row.timestamp
               IN  /\ data_now' = timestamp_ms
                   /\ metrics' = updated.m
                   /\ heap' = updated.h
                   /\ IF duplicate
                      THEN /\ reply' = [kind |-> "report_statistics", status |-> 500]
                           /\ UNCHANGED tables
                      ELSE /\ reply' = [kind |-> "report_statistics", status |-> 201]
                           /\ tables' = [tables EXCEPT !.ping_statistics = @ \cup {row}]
    /\ UNCHANGED <<prometheus_mode, cache_lock, sqlite_lock, db_writer, store, now,
                   threads, response, lin, drained, passed, seq>>
    /\ UNCHANGED <<utc_offset, trend_in, trend_out, norm>>
    /\ UNCHANGED proberVars

\* what a prober sends as disconnect_time: datetime.now().isoformat() of its
\* host (pingit.py), or text that is no time
SentTimes == {TsIso(data_now + utc_offset), TsText}

\* POST /api/report/disconnects, lines 1413-1471: 400 for a missing field; the
\* time is normalized, the cache counts the disconnect, the row is inserted
PostDisconnect ==
    /\ nreq < MaxRequests
    /\ nreq' = nreq + 1
    /\ \E valid \in BOOLEAN :
          IF ~valid
          THEN /\ reply' = [kind |-> "report_disconnects", status |-> 400,
                            disconnect_time |-> TsNone]
               /\ UNCHANGED <<metrics, heap, tables>>
          ELSE \E t \in Monitored, disconnect_time \in SentTimes :
               LET host == HostOf[t]
                   disconnect_time_ms == normalize_timestamp_ms(disconnect_time)
                   counted == increment_disconnect(Cache, t, host)
                   row == [target_name |-> t, host |-> host,
                           disconnect_time |-> TsInt(disconnect_time_ms)]
               IN  /\ metrics' = counted.m
                   /\ heap' = counted.h
                   /\ tables' = [tables EXCEPT !.disconnect_times = Append(@, row)]
                   /\ reply' = [kind |-> "report_disconnects", status |-> 201,
                                 disconnect_time |-> disconnect_time]
    /\ UNCHANGED <<prometheus_mode, cache_lock, sqlite_lock, db_writer, store, now,
                   threads, response, lin, drained, passed, seq>>
    /\ UNCHANGED <<utc_offset, data_now, trend_in, trend_out, norm>>
    /\ UNCHANGED proberVars

\* POST /api/admin/database/reset, lines 1030-1036: both tables are emptied,
\* then the cache is cleared
ResetDatabase ==
    /\ nreq < MaxRequests
    /\ nreq' = nreq + 1
    /\ tables' = [ping_statistics |-> {}, disconnect_times |-> <<>>]
    /\ LET cleared == clear(Cache, {})
       IN  metrics' = cleared.m /\ heap' = cleared.h
    /\ reply' = [kind |-> "reset", status |-> 200]
    /\ UNCHANGED <<prometheus_mode, cache_lock, sqlite_lock, db_writer, store, now,
                   threads, response, lin, drained, passed, seq>>
    /\ UNCHANGED <<utc_offset, data_now, trend_in, trend_out, norm>>
    /\ UNCHANGED proberVars

\* MetricsCache.clear, lines 250-253, called on its own
ClearCache ==
    /\ metrics # EmptyMap
    /\ LET cleared == clear(Cache, {})
       IN  metrics' = cleared.m /\ heap' = cleared.h
    /\ UNCHANGED <<prometheus_mode, cache_lock, sqlite_lock, db_writer, store, now,
                   threads, nreq, response, lin, drained, passed, seq>>
    /\ UNCHANGED readVars
    /\ UNCHANGED proberVars

\* disconnect rows of an older version, of a host the reports do not name
LegacyDisconnects ==
    {[target_name |-> "t1", host |-> "h2", disconnect_time |-> ts] :
        ts \in StoredDisconnectTimes \cup {TsText}}

\* the store at the start: empty, or one disconnect row of an older version
ScrapeInit ==
    /\ CacheInit
    /\ StoreInit
    /\ prometheus_mode \in BOOLEAN
    /\ tables \in {[ping_statistics |-> {}, disconnect_times |-> d] :
                       d \in SeqsUpTo(LegacyDisconnects, 1)}
    /\ utc_offset \in UtcOffsets
    /\ data_now = ReadClock
    /\ reply = NoReply

NextScrape ==
    \/ PostStatistics
    \/ PostDisconnect
    \/ GetMetrics
    \/ GetData
    \/ ResetDatabase
    \/ ClearCache

(***************************************************************************)
(* normalize_timestamp_ms called on a value, then on the decimal string of *)
(* what it returned and on what it returned                                *)
(***************************************************************************)
MaxChars == 3

Alphabet == {"4", "0", "-", ".", "x"}

\* the strings of at most n characters
RECURSIVE StringsUpTo(_)
StringsUpTo(n) ==
    IF n = 0 THEN {<<>>}
    ELSE LET shorter == StringsUpTo(n - 1)
         IN  shorter \cup {Append(t, c) : t \in shorter, c \in Alphabet}

NormInputs ==
    {TsNone, TsText, TsOther, TsNan, TsInf, TsStr(<<"nan">>), TsStr(<<"inf">>)}
    \cup {TsInt(v) : v \in {-40, -1, 0, 7, 40}}
    \cup {TsFloat(v) : v \in {-407, -4, 0, 4, 407}}
    \cup {TsIso(v) : v \in {777, 800}}
    \cup {TsStr(chars) : chars \in StringsUpTo(MaxChars)}

\* str(n) of an integer: its digits, after a "-" when it is negative
RECURSIVE digits_of(_)
digits_of(n) ==
    IF n < 10 THEN <<DigitChars[n + 1]>>
    ELSE Append(digits_of(n \div 10), DigitChars[(n % 10) + 1])

str(n) == IF n < 0 THEN <<"-">> \o digits_of(0 - n) ELSE digits_of(n)

NoOutcome == [called |-> FALSE, raised |-> FALSE, value |-> 0]

outcome(value) ==
    IF normalize_raises(value) THEN [called |-> TRUE, raised |-> TRUE, value |-> 0]
    ELSE [called |-> TRUE, raised |-> FALSE, value |-> normalize_timestamp_ms(value)]

NormIdle ==
    norm = [input |-> TsNone, first |-> NoOutcome, of_string |-> NoOutcome,
            of_value |-> NoOutcome]

NormInit ==
    /\ \E input \in NormInputs :
          norm = [input |-> input, first |-> NoOutcome, of_string |-> NoOutcome,
                  of_value |-> NoOutcome]
    /\ tables = [ping_statistics |-> {}, disconnect_times |-> <<>>]
    /\ utc_offset \in UtcOffsets
    /\ data_now = ReadClock
    /\ reply = NoReply

\* normalize_timestamp_ms(x)
Normalize ==
    /\ ~norm.first.called
    /\ norm' = [norm EXCEPT !.first = outcome(norm.input)]
    /\ UNCHANGED <<tables, utc_offset, data_now, reply, trend_in, trend_out>>
    /\ UNCHANGED proberVars
    /\ UNCHANGED collectorVars

\* normalize_timestamp_ms(str(normalize_timestamp_ms(x)))
NormalizeString ==
    /\ norm.first.called /\ ~norm.first.raised
    /\ ~norm.of_string.called
    /\ norm' = [norm EXCEPT !.of_string = outcome(TsStr(str(norm.first.value)))]
    /\ UNCHANGED <<tables, utc_offset, data_now, reply, trend_in, trend_out>>
    /\ UNCHANGED proberVars
    /\ UNCHANGED collectorVars

\* normalize_timestamp_ms(normalize_timestamp_ms(x))
NormalizeValue ==
    /\ norm.first.called /\ ~norm.first.raised
    /\ ~norm.of_value.called
    /\ norm' = [norm EXCEPT !.of_value = outcome(TsInt(norm.first.value))]
    /\ UNCHANGED <<tables, utc_offset, data_now, reply, trend_in, trend_out>>
    /\ UNCHANGED proberVars
    /\ UNCHANGED collectorVars

NextNormalize ==
    \/ Normalize
    \/ NormalizeString
    \/ NormalizeValue

\* the prober at rest
ProberIdle ==
    /\ targets = <<"t1">>
    /\ report_interval = 1
    /\ report_to_log = FALSE
    /\ running = FALSE
    /\ pc = "idle"
    /\ idx = 0
    /\ cur = [success |-> FALSE, response_time |-> NONE]
    /\ target_stats = [t \in Targets |-> TargetStats]
    /\ history = [t \in Targets |-> <<>>]
    /\ disconnects = [t \in Targets |-> {}]
    /\ reports = [t \in Targets |-> <<>>]
    /\ posts = <<>>
    /\ lastDelivery = "none"
    /\ loop_error = FALSE

\* the collector at rest, in persist mode (PROMETHEUS_MODE_DEFAULT)
CollectorIdle ==
    /\ CacheInit
    /\ StoreInit
    /\ prometheus_mode = FALSE

NextCollector ==
    \/ \E i \in Threads : report_statistics(i)
    \/ \E i \in Threads : UptCreate(i)
    \/ \E i \in Threads : UptAppend(i)
    \/ \E i \in Threads : UptHost(i)
    \/ \E i \in Threads : UptStatus(i)
    \/ \E i \in Threads : UpdateStatus(i)
    \/ \E i \in Threads : AcquireSqliteLock(i)
    \/ \E i \in Threads : RsInsert(i)
    \/ \E i \in Threads : RsCommit(i)
    \/ \E i \in Threads : report_disconnects(i)
    \/ \E i \in Threads : IncCount(i)
    \/ \E i \in Threads : IncStatus(i)
    \/ \E i \in Threads : RdInsert(i)
    \/ \E i \in Threads : RdCommit(i)
    \/ \E i \in Threads : metrics_scrape(i)
    \/ \E i \in Threads : GacCopy(i)
    \/ \E i \in Threads : GacClear(i)
    \/ \E i \in Threads : GetCopy(i)
    \/ \E i \in Threads : MQuery(i)
    \/ \E i \in Threads : MRespond(i)
    \/ \E i \in Threads : api_data(i)
    \/ \E i \in Threads : AdQuery(i)
    \/ \E i \in Threads : get_target_rows(i)
    \/ \E i \in Threads : TsQuery(i)
    \/ \E i \in Threads : TdQuery(i)
    \/ \E i \in Threads : admin_reset_database(i)
    \/ \E i \in Threads : ArDeleteStats(i)
    \/ \E i \in Threads : ArDeleteDisc(i)
    \/ \E i \in Threads : ArCommit(i)
    \/ \E i \in Threads : Clear(i)
    \/ \E i \in Threads : ArRespond(i)
    \/ \E i \in Threads : admin_prometheus_mode(i)

\* threads calling every method of the cache
NextCacheThreads ==
    \/ \E i \in Threads : call_update_ping_time(i)
    \/ \E i \in Threads : call_update_status(i)
    \/ \E i \in Threads : call_increment_disconnect(i)
    \/ \E i \in Threads : call_get_and_clear(i)
    \/ \E i \in Threads : call_get_copy(i)
    \/ \E i \in Threads : call_clear(i)
    \/ \E i \in Threads : CallerDrops(i)
    \/ \E i \in Threads : UptCreate(i)
    \/ \E i \in Threads : UptAppend(i)
    \/ \E i \in Threads : UptHost(i)
    \/ \E i \in Threads : UptStatus(i)
    \/ \E i \in Threads : UpdateStatus(i)
    \/ \E i \in Threads : IncCount(i)
    \/ \E i \in Threads : IncStatus(i)
    \/ \E i \in Threads : GacCopy(i)
    \/ \E i \in Threads : GacClear(i)
    \/ \E i \in Threads : GetCopy(i)
    \/ \E i \in Threads : Clear(i)

\* drain mode: threads calling update_ping_time and get_and_clear
NextDrain ==
    \/ \E i \in Threads : call_update_ping_time(i)
    \/ \E i \in Threads : call_get_and_clear(i)
    \/ \E i \in Threads : CallerDrops(i)
    \/ \E i \in Threads : UptCreate(i)
    \/ \E i \in Threads : UptAppend(i)
    \/ \E i \in Threads : UptHost(i)
    \/ \E i \in Threads : UptStatus(i)
    \/ \E i \in Threads : GacCopy(i)
    \/ \E i \in Threads : GacClear(i)

NextProber ==
    \/ start
    \/ stop
    \/ RunWhile
    \/ RunFor
    \/ RunSleep
    \/ PingProbe
    \/ PingDetect
    \/ PingCheckReport
    \/ PingReset

\* the prober runs, the collector is at rest
InitProber == ProberInit /\ CollectorIdle /\ DataIdle /\ TrendIdle /\ NormIdle

\* the cache is called, the prober and the store are at rest
InitCache == ProberIdle /\ CollectorIdle /\ DataIdle /\ TrendIdle /\ NormIdle

\* the collector serves requests, the prober is at rest
InitCollector == ProberIdle /\ CollectorInit /\ DataIdle /\ TrendIdle /\ NormIdle

\* the collector answers read requests over the rows it holds
InitData == ProberIdle /\ CollectorIdle /\ DataInit /\ TrendIdle /\ NormIdle

\* filter_points_by_trend is called on a series
InitTrend == ProberIdle /\ CollectorIdle /\ DataIdle /\ TrendInit /\ NormIdle

SpecProber == InitProber /\ [][NextProber]_vars

SpecCache == InitCache /\ [][NextCache]_vars

SpecCacheThreads == InitCache /\ [][NextCacheThreads]_vars

SpecDrain == InitCache /\ [][NextDrain]_vars

SpecCollector == InitCollector /\ [][NextCollector]_vars

SpecData == InitData /\ [][NextData]_vars

SpecTrend == InitTrend /\ [][NextTrend]_vars

\* the collector serves requests one at a time
InitScrape == ProberIdle /\ ScrapeInit /\ TrendIdle /\ NormIdle

SpecScrape == InitScrape /\ [][NextScrape]_vars

\* normalize_timestamp_ms is called on a value
InitNormalize == ProberIdle /\ CollectorIdle /\ TrendIdle /\ NormInit

SpecNormalize == InitNormalize /\ [][NextNormalize]_vars

(***************************************************************************)
(* Properties of the prober                                                *)
(***************************************************************************)
\* the prober is inside ping_target for target t, at one of the positions ps
InFlight(t, ps) == pc \in ps /\ idx \in 1..Len(targets) /\ targets[idx] = t

StatusAt(t, i) == IF history[t][i].success THEN UP ELSE DOWN

Zeroed(s) ==
    /\ s.total_pings = 0
    /\ s.successful_pings = 0
    /\ s.failed_pings = 0
    /\ s.ping_iteration = 0
    /\ s.response_times = <<>>

\* C1: for every target, after every add_ping and every reset_iteration,
\* total_pings = successful_pings + failed_pings.
C1_TotalIsSuccessPlusFailed ==
    \A t \in Targets :
        target_stats[t].total_pings =
            target_stats[t].successful_pings + target_stats[t].failed_pings

\* a target that was reset by a report and has since recorded both results
C1_Witness ==
    \E t \in Targets :
        /\ Len(reports[t]) >= 1
        /\ target_stats[t].successful_pings >= 1
        /\ target_stats[t].failed_pings >= 1

\* probes of t whose disconnect detection (lines 340-344) has run
Detected(t) == Len(history[t]) - (IF InFlight(t, {"detect"}) THEN 1 ELSE 0)

\* first indices of the maximal runs of down results among the first n probes
RunStarts(t, n) ==
    {i \in 1..n : StatusAt(t, i) = DOWN /\ (i = 1 \/ StatusAt(t, i - 1) = UP)}

\* C2: a disconnect is emitted on a probe iff the probe is down and the
\* previous last_status was not down: the disconnects are exactly the first
\* probes of the maximal runs of down results, and last_status is the status
\* of the latest probe (unknown before the first).
C2_DisconnectPerDownRun ==
    \A t \in Targets :
        /\ disconnects[t] = RunStarts(t, Detected(t))
        /\ target_stats[t].last_status =
              (IF Detected(t) = 0 THEN NONE ELSE StatusAt(t, Detected(t)))

\* results [up, down, down, up, down] gave disconnects at the 2nd and 5th probe
C2_Witness ==
    \E t \in Targets :
        /\ Detected(t) = 5
        /\ [i \in 1..5 |-> StatusAt(t, i)] = <<UP, DOWN, DOWN, UP, DOWN>>
        /\ disconnects[t] = {2, 5}

\* the samples add_ping recorded for probes from+1..to of t
RECURSIVE SamplesOf(_, _, _)
SamplesOf(t, from, to) ==
    IF to <= from THEN <<>>
    ELSE LET r == history[t][to]
         IN  IF r.success /\ r.response_time # 0
             THEN Append(SamplesOf(t, from, to - 1), r.response_time)
             ELSE SamplesOf(t, from, to - 1)

ReportStart(t, k) == IF k = 1 THEN 0 ELSE reports[t][k - 1].at

\* C3: once ping_target has emitted a report for a target, its counters are
\* zero and response_times is empty before the next probe, and every report
\* counts exactly the probes and samples recorded since the previous report.
C3_CountersRestartAfterReport ==
    \A t \in Targets :
        /\ ( /\ Len(reports[t]) > 0
             /\ reports[t][Len(reports[t])].at = Len(history[t])
             /\ ~InFlight(t, {"reset"}) )
           => Zeroed(target_stats[t])
        /\ \A k \in 1..Len(reports[t]) :
              LET from == ReportStart(t, k)
                  to == reports[t][k].at
                  d == reports[t][k].data
              IN  /\ d.total_pings = to - from
                  /\ d.successful_pings = Cardinality({i \in (from + 1)..to : history[t][i].success})
                  /\ d.failed_pings = Cardinality({i \in (from + 1)..to : ~history[t][i].success})
                  /\ reports[t][k].samples = SamplesOf(t, from, to)

\* two reports of one target, each over samples of its own cycle
C3_Witness ==
    \E t \in Targets :
        /\ Len(reports[t]) >= 2
        /\ reports[t][1].samples # <<>>
        /\ reports[t][2].samples # <<>>
        /\ Len(reports[t][2].samples) <= reports[t][2].data.total_pings
        /\ Zeroed(target_stats[t])

\* probes of t whose report trigger (line 347) has been evaluated
Checked(t) == Len(history[t]) - (IF InFlight(t, {"detect", "check"}) THEN 1 ELSE 0)

\* C4: a report is emitted exactly on the R-th, 2R-th, ... probe of a target;
\* ping_iteration never exceeds R and is below R after every completed
\* ping_target; every report has total_pings = R.
C4_ReportEveryRthProbe ==
    \A t \in Targets :
        /\ {reports[t][k].at : k \in 1..Len(reports[t])} =
              {i \in 1..Checked(t) : i % report_interval = 0}
        /\ \A k \in 1..Len(reports[t]) : reports[t][k].at = k * report_interval
        /\ target_stats[t].ping_iteration <= report_interval
        /\ ~InFlight(t, {"detect", "check", "reset"})
              => target_stats[t].ping_iteration < report_interval
        /\ \A k \in 1..Len(reports[t]) : reports[t][k].data.total_pings = report_interval

\* with R >= 2, two reports were emitted and a later probe emitted none
C4_Witness ==
    \E t \in Targets :
        /\ report_interval >= 2
        /\ Len(reports[t]) = 2
        /\ Checked(t) > reports[t][2].at

Failures == {"non201", "Timeout", "ConnectionError", "Exception"}

\* C5: a failed delivery never leaves ping_target by an exception, no report
\* or event is POSTed twice, and after a failed statistics delivery the
\* counters are reset all the same.
C5_DeliveryFailureDropped ==
    /\ ~loop_error
    /\ \A i, j \in 1..Len(posts) : i # j => posts[i] # posts[j]
    /\ \A t \in Targets :
          ( /\ lastDelivery \in Failures
            /\ Len(posts) > 0
            /\ posts[Len(posts)] = <<"statistics", t, Len(history[t])>>
            /\ ~InFlight(t, {"reset"}) )
          => Zeroed(target_stats[t])

\* the delivery of a report timed out, and the target was probed again with
\* counters that restarted from zero
C5_Witness ==
    \E t \in Targets :
        /\ lastDelivery = "Timeout"
        /\ Len(posts) > 0
        /\ posts[Len(posts)][1] = "statistics"
        /\ posts[Len(posts)][2] = t
        /\ Len(history[t]) > posts[Len(posts)][3]
        /\ target_stats[t].total_pings = Len(history[t]) - posts[Len(posts)][3]
        /\ ~InFlight(t, {"detect", "check", "reset"})

(***************************************************************************)
(* Properties of the metrics cache                                         *)
(***************************************************************************)
\* C6: whatever state the mutator calls have built, get_and_clear returns a
\* snapshot equal to that state and leaves the cache empty, and a
\* get_and_clear that directly follows another returns an empty snapshot
C6_GetAndClearSnapshotsAndEmpties ==
    seq.op = "get_and_clear" =>
        /\ SnapView(seq.result, heap) = seq.before
        /\ View(Cache) = EmptyMap
        /\ metrics = EmptyMap
        /\ (seq.prev_op = "get_and_clear" => SnapView(seq.result, heap) = EmptyMap)

\* a get_and_clear that found samples is directly followed by a second one
C6_Witness ==
    /\ seq.op = "get_and_clear"
    /\ seq.prev_op = "get_and_clear"
    /\ SamplesIn(SnapView(seq.prev_result, heap)) # {}
    /\ SnapView(seq.result, heap) = EmptyMap

\* the number of get_and_clear snapshots that returned sample x
Drains(x) == IF x \in DOMAIN drained THEN drained[x] ELSE 0

\* C7: under every interleaving of update_ping_time and get_and_clear calls, a
\* sample is returned by at most one get_and_clear, and once its
\* update_ping_time has returned it is, whenever no call is inside the cache,
\* either returned by exactly one get_and_clear or still in the cache
C7_SampleDrainedOnceOrStillCached ==
    /\ \A x \in DOMAIN drained : drained[x] <= 1
    /\ cache_lock = NoThread =>
          \A x \in passed : (Drains(x) = 1) # (x \in SamplesIn(View(Cache)))
    /\ \A x \in SamplesIn(View(Cache)) : x \in 1..nreq

\* one sample has been returned by a get_and_clear and is gone from the cache;
\* an update_ping_time call has appended the next sample and is still inside
\* the cache while a get_and_clear call of another thread waits for the lock
C7_Witness ==
    \E i, j \in Threads :
        /\ threads[i].pc \in {"upt_host", "upt_status"}
        /\ threads[i].req.sample \in SamplesIn(View(Cache))
        /\ threads[j].pc = "gac_copy"
        /\ \E x \in passed : Drains(x) = 1 /\ x \notin SamplesIn(View(Cache))

\* the positions at which a thread holds a snapshot it was returned
HoldsSnapshot(i) ==
    threads[i].pc \in {"gac_clear", "caller_holds", "m_lock", "m_query", "m_respond"}

\* C8: the operations of the cache are atomic: whenever no call is inside the
\* cache its state is the one the calls build when run one after the other in
\* the order they took the lock, every snapshot equals the state so built at
\* the moment of the copy, and no later mutation changes a snapshot
C8_CacheOperationsAtomic ==
    /\ cache_lock = NoThread => View(Cache) = View(lin)
    /\ \A i \in Threads :
          HoldsSnapshot(i) =>
             SnapView(threads[i].current_metrics, heap) = threads[i].seen

\* a caller holds a snapshot with a sample, and the cache has since been
\* changed by a mutator call
C8_Witness ==
    \E i \in Threads :
        /\ threads[i].pc = "caller_holds"
        /\ SamplesIn(threads[i].seen) # {}
        /\ cache_lock = NoThread
        /\ View(Cache) # EmptyMap
        /\ View(Cache) # threads[i].seen

(***************************************************************************)
(* Properties of the collector's locks                                     *)
(***************************************************************************)
\* the positions at which a thread is about to enter `with self.lock:`
CacheEntry == {"upt_create", "ust", "inc_count", "gac_copy", "gc_copy", "clear"}

\* the holder of the lock thread i is waiting for, NoThread when it waits for none
WaitsFor(i) ==
    CASE threads[i].pc \in CacheEntry -> cache_lock
      [] threads[i].pc \in DOMAIN StoreEntry -> sqlite_lock
      [] OTHER -> NoThread

\* C9: no thread holds sqlite_lock and the cache lock together, none asks for
\* one of them while it holds the other, and no thread waits for a lock whose
\* holder is itself waiting for a lock
C9_LocksNeverNested ==
    \A i \in Threads :
        /\ ~(cache_lock = i /\ sqlite_lock = i)
        /\ cache_lock = i => threads[i].pc \notin DOMAIN StoreEntry
        /\ sqlite_lock = i => threads[i].pc \notin CacheEntry
        /\ WaitsFor(i) # NoThread => WaitsFor(i) # i /\ WaitsFor(WaitsFor(i)) = NoThread

\* a request that has been through the cache holds sqlite_lock while another
\* request is inside the cache
C9_Witness ==
    \E i, j \in Threads :
        /\ i # j
        /\ sqlite_lock = i
        /\ threads[i].req.handler \in {"report_statistics", "report_disconnects", "metrics"}
        /\ cache_lock = j

\* the positions at which a request is reading or writing the tables: inside
\* a `with sqlite_lock:` block, or between the first DELETE of reset_database
\* and its commit
StoreAccess == {"rs_insert", "rs_commit", "rd_insert", "rd_commit", "m_query",
                "ad_query", "ts_query", "td_query", "ar_delete_disc", "ar_commit"}

\* C10: a request that reads or writes the store holds sqlite_lock, so no two
\* requests are at the store together
C10_StoreAccessUnderLock ==
    /\ \A i \in Threads : threads[i].pc \in StoreAccess => sqlite_lock = i
    /\ \A i, j \in Threads :
          (threads[i].pc \in StoreAccess /\ threads[j].pc \in StoreAccess) => i = j

(***************************************************************************)
(* Properties of the ingest handlers                                       *)
(***************************************************************************)
\* thread i takes the step that ends its request
Finishes(i) == threads[i].pc # "idle" /\ threads'[i].pc = "idle"

\* the INSERT of thread i meets a stored row with its (target_name, timestamp)
DuplicateInsert(i) ==
    /\ threads[i].pc = "rs_insert"
    /\ db_writer # "admin"
    /\ \E old \in store.ping_statistics :
          /\ old.target_name = threads[i].req.target_name
          /\ old.timestamp = threads[i].req.timestamp_ms

\* C11: a statistics report whose (target_name, timestamp_ms) is already
\* stored adds no row and is swallowed: its response is not an error status
C11_DuplicateStatisticsSwallowed ==
    [][\A i \in Threads :
          (DuplicateInsert(i) /\ Finishes(i)) =>
             /\ store'.ping_statistics = store.ping_statistics
             /\ response' \in {200, 201}]_vars

\* a request with a required field missing is answered at once
Rejected ==
    /\ nreq' = nreq + 1
    /\ threads' = threads
    /\ response' = 400

\* C12: a report that lacks a required field is answered 400 and changes
\* neither the store nor the cache; a report with every required field is
\* answered 201, with its row in the store
C12_MissingField400OtherwiseStored ==
    [][/\ Rejected => (store' = store /\ metrics' = metrics /\ heap' = heap)
       /\ \A i \in Threads :
             (Finishes(i) /\ threads[i].req.handler = "report_statistics") =>
                /\ response' = 201
                /\ \E row \in store'.ping_statistics :
                      /\ row.target_name = threads[i].req.target_name
                      /\ row.timestamp = threads[i].req.timestamp_ms
       /\ \A i \in Threads :
             (Finishes(i) /\ threads[i].req.handler = "report_disconnects") =>
                /\ response' = 201
                /\ \E k \in 1..Len(store'.disconnect_times) :
                      /\ store'.disconnect_times[k].target_name = threads[i].req.target_name
                      /\ store'.disconnect_times[k].disconnect_time =
                            normalize_timestamp_ms(threads[i].req.disconnect_time)]_vars

(***************************************************************************)
(* Properties of the read handlers                                         *)
(***************************************************************************)
\* the rows of target t that the latest GET data found inside its window
RowsOf(t) == {row \in StatsInWindow(reply.cutoff) : row.target_name = t}

DisconnectsOf(t) ==
    {k \in DisconnectsInWindow(reply.cutoff) : tables.disconnect_times[k].target_name = t}

RECURSIVE SumOf(_, _)
SumOf(rows, column) ==
    IF rows = {} THEN 0
    ELSE LET row == CHOOSE r \in rows : TRUE
         IN  row[column] + SumOf(rows \ {row}, column)

\* C13: the pings of a target's window summary are the sum of total_pings over
\* its rows in the window, and its success_rate is the sum of successful_pings
\* over the sum of total_pings, times 100 (0 when no ping was made)
C13_SummarySumsTheCycles ==
    reply.kind = "api_data" =>
        \A t \in Targets :
            RowsOf(t) # {} =>
               LET total == SumOf(RowsOf(t), "total_pings")
                   successful == SumOf(RowsOf(t), "successful_pings")
                   summary == reply.targets[t]
               IN  /\ summary.pings = total
                   /\ IF total = 0 THEN summary.success_rate.num = 0
                      ELSE summary.success_rate.num * total
                              = successful * 100 * summary.success_rate.den

\* the cycles {total 30, success 30} and {total 30, success 27} of one target
\* give 60 pings and a rate of 95
C13_Witness ==
    /\ reply.kind = "api_data"
    /\ \E t \in Targets :
          /\ {<<row.total_pings, row.successful_pings>> : row \in RowsOf(t)}
                = {<<30, 30>>, <<30, 27>>}
          /\ reply.targets[t].pings = 60
          /\ reply.targets[t].success_rate.num = 95 * reply.targets[t].success_rate.den

\* C14: the status of a target's summary is that of its row with the greatest
\* timestamp in the window, in whatever order the store returns the rows
C14_StatusOfLatestRow ==
    reply.kind = "api_data" =>
        \A t \in Targets :
            RowsOf(t) # {} =>
               \E latest \in RowsOf(t) :
                  /\ \A row \in RowsOf(t) : timestamp_ms_expr(row.timestamp)
                                               <= timestamp_ms_expr(latest.timestamp)
                  /\ (reply.targets[t].status = "up") <=> (latest.last_status = UP)

\* C15: a target is in the targets of GET data iff it has a statistics row or
\* a disconnect row in the window; with disconnect rows only it has 0 pings,
\* rate 0 and status down
C15_TargetsWithRowsInWindow ==
    reply.kind = "api_data" =>
        \A t \in Targets :
            /\ t \in DOMAIN reply.targets <=> (RowsOf(t) # {} \/ DisconnectsOf(t) # {})
            /\ (RowsOf(t) = {} /\ DisconnectsOf(t) # {}) =>
                  /\ reply.targets[t].pings = 0
                  /\ reply.targets[t].success_rate.num = 0
                  /\ reply.targets[t].status = "down"

\* one target is listed for its disconnect alone, another is left out because
\* its only row is older than the window
C15_Witness ==
    /\ reply.kind = "api_data"
    /\ \E t, u \in Targets :
          /\ RowsOf(t) = {} /\ DisconnectsOf(t) # {}
          /\ reply.targets[t].status = "down"
          /\ u \notin DOMAIN reply.targets
          /\ \E row \in tables.ping_statistics : row.target_name = u

\* C16: the disconnect_count of a target's summary is the number of its
\* disconnect rows in the window, last_disconnect the greatest of their times,
\* whatever hosts the rows carry, and total_disconnect_events counts the
\* disconnect rows in the window
C16_DisconnectsCountedPerTarget ==
    reply.kind = "api_data" =>
        /\ \A t \in Targets :
              DisconnectsOf(t) # {} =>
                 /\ reply.targets[t].disconnect_count = Cardinality(DisconnectsOf(t))
                 /\ \A k \in 1..Len(reply.disconnects) :
                       reply.disconnects[k].name = t =>
                          reply.disconnects[k].last_disconnect =
                             SetMax({timestamp_ms_expr(
                                        tables.disconnect_times[j].disconnect_time) :
                                           j \in DisconnectsOf(t)})
        /\ reply.total_disconnect_events = Cardinality(DisconnectsInWindow(reply.cutoff))

\* C17: GET data returns exactly the rows whose normalized timestamp is after
\* the cutoff: every timestamp returned is after it, and the timestamps of a
\* target's series, and the count of disconnect events, are those of the rows
\* whose normalize_timestamp_ms is after it
C17_WindowByNormalizedTimestamp ==
    reply.kind = "api_data" =>
        /\ \A t \in DOMAIN reply.timeseries :
              \A k \in 1..Len(reply.timeseries[t].timestamps) :
                 reply.timeseries[t].timestamps[k] > reply.cutoff
        /\ \A k \in 1..Len(reply.disconnects) :
              reply.disconnects[k].last_disconnect > reply.cutoff
        /\ \A t \in Targets :
              LET inside == {row \in tables.ping_statistics :
                                /\ row.target_name = t
                                /\ normalize_timestamp_ms(row.timestamp) > reply.cutoff}
                  returned == IF t \in DOMAIN reply.timeseries
                              THEN Range(reply.timeseries[t].timestamps) ELSE {}
              IN  returned = {normalize_timestamp_ms(row.timestamp) : row \in inside}
        /\ reply.total_disconnect_events =
              Cardinality({k \in 1..Len(tables.disconnect_times) :
                              normalize_timestamp_ms(tables.disconnect_times[k].disconnect_time)
                                 > reply.cutoff})

\* C18: GET statistics/<target_name> answers 404 iff the target has no row,
\* and otherwise returns the target's row with the greatest normalized
\* timestamp
C18_LatestStatisticsRow ==
    reply.kind = "statistics" =>
        LET rows == {r \in tables.ping_statistics : r.target_name = reply.target_name}
        IN  /\ reply.status = 404 <=> rows = {}
            /\ reply.status # 404 =>
                  /\ reply.status = 200
                  /\ reply.row \in rows
                  /\ \A q \in rows : normalize_timestamp_ms(q.timestamp)
                                        <= normalize_timestamp_ms(reply.row.timestamp)

(***************************************************************************)
(* Properties of filter_points_by_trend                                    *)
(***************************************************************************)
\* a is b with some of its elements left out
RECURSIVE IsSubsequence(_, _)
IsSubsequence(a, b) ==
    IF a = <<>> THEN TRUE
    ELSE IF b = <<>> THEN FALSE
    ELSE IF Head(a) = Head(b) THEN IsSubsequence(Tail(a), Tail(b))
    ELSE IsSubsequence(a, Tail(b))

\* C19: the list returned is the input with some points left out, in the
\* input's order, and keeps the first and the last point; an input of at most
\* baseline_points points comes back unchanged, also when it is itself the
\* output of a call before
C19_SubsequenceKeepingEnds ==
    trend_out.calls >= 1 =>
        LET input == trend_out.input
            output == trend_out.points
        IN  /\ IsSubsequence(output, input)
            /\ input # <<>> =>
                  /\ output # <<>>
                  /\ output[1] = input[1]
                  /\ output[Len(output)] = input[Len(input)]
            /\ Len(input) <= trend_in.baseline_points => output = input

\* a first pass has left points out and kept both ends, the second pass
\* returns its input
C19_Witness ==
    /\ trend_out.calls = 2
    /\ Len(trend_out.input) < Len(trend_in.points)
    /\ trend_out.input[1] = trend_in.points[1]
    /\ trend_out.input[Len(trend_out.input)] = trend_in.points[Len(trend_in.points)]
    /\ trend_out.points = trend_out.input

\* the vertical distance of point i of the series from its least-squares line
\* is greater than the threshold
Deviates(points, i, outlier_threshold) ==
    LET n == Len(points)
        sx == SeqSum([k \in 1..n |-> points[k].x])
        sy == SeqSum([k \in 1..n |-> points[k].y])
        sxy == SeqSum([k \in 1..n |-> points[k].x * points[k].y])
        sxx == SeqSum([k \in 1..n |-> points[k].x * points[k].x])
        d == n * sxx - sx * sx
        a == n * sxy - sx * sy
        line == a * n * points[i].x + sy * d - a * sx
    IN  \/ points[i].y * n * d - line > outlier_threshold * n * d
        \/ line - points[i].y * n * d > outlier_threshold * n * d

\* the trend line of the series exists: its points do not share one x
NonDegenerate(points) == \E i, j \in 1..Len(points) : points[i].x # points[j].x

\* C20: of a series longer than baseline_points with a trend line, every
\* interior point further than outlier_threshold from the line is returned
C20_OutliersKept ==
    (/\ trend_out.calls >= 1
     /\ Len(trend_out.input) > trend_in.baseline_points
     /\ NonDegenerate(trend_out.input)) =>
        \A i \in 2..(Len(trend_out.input) - 1) :
            Deviates(trend_out.input, i, trend_in.outlier_threshold) =>
               \E k \in 1..Len(trend_out.points) : trend_out.points[k] = trend_out.input[i]

\* of the evenly spaced series, the spike outside the baseline indices is
\* returned with the 21 baseline points
C20_Witness ==
    /\ trend_out.calls = 1
    /\ trend_in.points = SpikeSeries
    /\ Len(trend_out.points) = 22
    /\ \E k \in 1..Len(trend_out.points) : trend_out.points[k] = [x |-> 21, y |-> 50]

(***************************************************************************)
(* Properties of normalize_timestamp_ms                                    *)
(***************************************************************************)
\* C21: normalize_timestamp_ms returns an integer for every input and never
\* raises: 0 for null, the number cut to an integer for a number and for a
\* numeric string, the epoch time for an ISO-8601 string, 0 for anything else
C21_NormalizeTotal ==
    norm.first.called =>
        /\ ~norm.first.raised
        /\ norm.first.value \in Int
        /\ norm.input.kind = "none" => norm.first.value = 0
        /\ norm.input.kind = "int" => norm.first.value = norm.input.v
        /\ norm.input.kind = "float" =>
              /\ norm.first.value * 10 <= norm.input.v \/ norm.input.v < 0
              /\ norm.first.value * 10 >= norm.input.v \/ norm.input.v > 0
              /\ norm.first.value * 10 - norm.input.v \in -9..9
        /\ norm.input.kind = "iso" => norm.first.value = norm.input.v - utc_offset
        /\ norm.input.kind \in {"text", "other"} => norm.first.value = 0

\* C22: for an integer, a numeric string and an ISO-8601 string x, normalizing
\* the decimal string of normalize_timestamp_ms(x), and normalizing
\* normalize_timestamp_ms(x) itself, give normalize_timestamp_ms(x) again
C22_NormalizeRoundTrip ==
    (/\ norm.first.called
     /\ \/ norm.input.kind \in {"int", "iso"}
        \/ norm.input.kind = "str" /\ float_of_string(norm.input.chars).ok
                                   /\ ~float_of_string(norm.input.chars).special) =>
        /\ ~norm.first.raised
        /\ norm.of_string.called =>
              ~norm.of_string.raised /\ norm.of_string.value = norm.first.value
        /\ norm.of_value.called =>
              ~norm.of_value.raised /\ norm.of_value.value = norm.first.value

\* the numeric string "-4." has gone through both second calls: it gives -4,
\* whose decimal string "-4" gives -4 again
C22_Witness ==
    /\ norm.input = TsStr(<<"-", "4", ".">>)
    /\ norm.first.value = -4
    /\ norm.of_string.called /\ norm.of_string.value = -4
    /\ norm.of_value.called /\ norm.of_value.value = -4

(***************************************************************************)
(* Properties of the collector serving one request at a time               *)
(***************************************************************************)
\* the disconnect rows of the store whose normalized time is not 0
Dated == {k \in 1..Len(tables.disconnect_times) :
             normalize_timestamp_ms(tables.disconnect_times[k].disconnect_time) # 0}

\* the window replies count and return none of the rows whose time is 0
ZeroRowsInvisible ==
    /\ reply.kind = "api_data" =>
          /\ reply.total_disconnect_events =
                Cardinality(Dated \cap DisconnectsInWindow(reply.cutoff))
          /\ \A k \in 1..Len(reply.disconnects) : reply.disconnects[k].last_disconnect # 0
          /\ \A t \in DOMAIN reply.timeseries :
                \A k \in 1..Len(reply.timeseries[t].timestamps) :
                   reply.timeseries[t].timestamps[k] # 0
    /\ reply.kind = "metrics" =>
          \A key \in DOMAIN reply.counters :
             reply.counters[key] =
                Cardinality({k \in Dated \cap DisconnectsInWindow(reply.cutoffs[key[3]]) :
                                /\ tables.disconnect_times[k].target_name = key[1]
                                /\ tables.disconnect_times[k].host = key[2]})

StoredDisconnects(t, h, cutoff) ==
    {k \in DisconnectsInWindow(cutoff) :
        /\ tables.disconnect_times[k].target_name = t
        /\ tables.disconnect_times[k].host = h}

\* C24: GET metrics has a gauge line for exactly the targets of the cache with
\* ping times, and a counter for (target, host, period) whose value is the
\* number of disconnect rows of the store for them inside the period, whatever
\* was done to the cache before
C24_GaugesFromCacheCountersFromStore ==
    [][/\ (reply'.kind = "metrics" /\ reply' # reply) =>
              reply'.gauges = {<<t, heap[metrics[t]].host>> :
                                  t \in {u \in DOMAIN metrics :
                                            heap[metrics[u]].ping_times # <<>>}}
       /\ (reply'.kind = "metrics" /\ tables' = tables) =>
              \A t \in Targets, h \in Hosts, p \in DOMAIN time_periods :
                 LET rows == StoredDisconnects(t, h, reply'.cutoffs[p])
                 IN  IF rows = {} THEN <<t, h, p>> \notin DOMAIN reply'.counters
                     ELSE /\ <<t, h, p>> \in DOMAIN reply'.counters
                          /\ reply'.counters[<<t, h, p>>] = Cardinality(rows)
      ]_vars

\* a drained cache: the second scrape in prometheus mode has no gauge left,
\* and still the counter of the disconnect reported before
C24_Witness ==
    /\ reply.kind = "metrics"
    /\ prometheus_mode
    /\ metrics = EmptyMap
    /\ reply.gauges = {}
    /\ \E row \in tables.ping_statistics : row.avg_response_time > 0
    /\ <<"t1", "h1", "1h">> \in DOMAIN reply.counters
    /\ reply.counters[<<"t1", "h1", "1h">>] = 1

(***************************************************************************)
(* Properties of the prober's loop and of its report cycle                 *)
(***************************************************************************)
\* C25: once running is false no probe is started and the loop does not go
\* to sleep for another interval: the loop enters a probe and enters
\* time.sleep only with running true.
C25_NoProbeNoSleepAfterStop ==
    [][/\ (pc' = "ping" /\ pc # "ping") => running
       /\ (pc' = "sleep" /\ pc # "sleep") => running
      ]_vars

DownRun(t, i, j) == \A m \in i..j : StatusAt(t, m) = DOWN

\* the runs of down results of t, from a first index b to j, with a report
\* emitted on a probe of the run before j
RunsOverReport(t) ==
    {<<b, j>> \in (1..Detected(t)) \X (1..Detected(t)) :
        /\ b \in RunStarts(t, Detected(t))
        /\ b < j
        /\ DownRun(t, b, j)
        /\ \E k \in 1..Len(reports[t]) :
              reports[t][k].at >= b /\ reports[t][k].at < j}

\* C27: a run of consecutive down probes of a target that goes over one or
\* more report boundaries has exactly one disconnect, that of its first
\* probe, and last_status is never unknown once a probe has been recorded.
C27_ResetKeepsDisconnectDetection ==
    \A t \in Targets :
        /\ Detected(t) >= 1 => target_stats[t].last_status # NONE
        /\ \A r \in RunsOverReport(t) :
              {n \in disconnects[t] : n >= r[1] /\ n <= r[2]} = {r[1]}

\* three down probes of t1 with a report and its reset after the second
C27_Witness ==
    /\ Detected("t1") >= 3
    /\ DownRun("t1", 1, 3)
    /\ Len(reports["t1"]) >= 1
    /\ reports["t1"][1].at = 2
    /\ disconnects["t1"] = {1}
    /\ <<1, 3>> \in RunsOverReport("t1")

\* successful probes with a response time among the probes from + 1 .. to
ProbesWithTime(t, from, to) ==
    {i \in (from + 1)..to :
        history[t][i].success /\ history[t][i].response_time # NONE}

\* C29: every successful probe with a response time, 0 included, appends one
\* sample: a report carries as many samples as its cycle has successful
\* probes with a response time, and its avg, min and max are absent only when
\* it has no sample.
C29_EverySuccessfulProbeSampled ==
    \A t \in Targets : \A k \in 1..Len(reports[t]) :
        LET rep == reports[t][k]
        IN  /\ Len(rep.samples)
                  = Cardinality(ProbesWithTime(t, ReportStart(t, k), rep.at))
            /\ (rep.data.avg_response_time = NONE) <=> (rep.samples = <<>>)
            /\ (rep.data.min_response_time = NONE) <=> (rep.samples = <<>>)
            /\ (rep.data.max_response_time = NONE) <=> (rep.samples = <<>>)

(***************************************************************************)
(* Properties of the ingestion of a statistics report under a scrape       *)
(***************************************************************************)
\* C28: a scrape sees none or all of the cache effects of a statistics
\* report: no snapshot is taken by get_copy or get_and_clear between the
\* update_ping_time and the update_status of a report so that it holds the
\* report's sample with a status other than the report's last_status.
C28_ReportObservedAtomically ==
    [][\A i \in Threads, j \in Threads :
          LET r == threads[i].req
              snap == SnapView(threads'[j].current_metrics, heap')
          IN  ( /\ threads'[j].current_metrics # threads[j].current_metrics
                /\ r.handler = "report_statistics"
                /\ threads[i].pc = "ust"
                /\ Truthy(r.avg_response_time)
                /\ r.target_name \in DOMAIN snap
                /\ r.sample \in Range(snap[r.target_name].ping_times) )
              => snap[r.target_name].status = r.last_status
      ]_vars

(***************************************************************************)
(* Properties of the response times of a window summary                    *)
(***************************************************************************)
\* the values of a column of the rows, one after the other
RECURSIVE ColumnOf(_, _)
ColumnOf(rows, column) ==
    IF rows = {} THEN <<>>
    ELSE LET row == CHOOSE r \in rows : TRUE
         IN  <<row[column]>> \o ColumnOf(rows \ {row}, column)

\* the rows of t in the window of the latest GET data that carry response times
TimedRowsOf(t) == {row \in RowsOf(t) : row.avg_response_time # NONE}

\* C26: the jitter of a target's window summary is the population standard
\* deviation (the squared deviations divided by n) of the avg_response_time
\* of its rows in the window, and 0 when it has fewer than 2 rows.
C26_JitterIsPopulationDeviation ==
    reply.kind = "api_data" =>
        \A t \in Targets :
            (RowsOf(t) # {} /\ TimedRowsOf(t) = RowsOf(t)) =>
                reply.targets[t].jitter =
                    IF Cardinality(RowsOf(t)) < 2 THEN 0
                    ELSE pstdev(ColumnOf(RowsOf(t), "avg_response_time"))

\* C30: the avg_response_time of a target's window summary is the mean of the
\* avg_response_time of its rows in the window, its min and max the least
\* min_response_time and the greatest max_response_time of them; a row with
\* absent response times adds no value to the mean, the min or the max.
C30_SummaryTimesOverTimedRows ==
    reply.kind = "api_data" =>
        \A t \in Targets :
            TimedRowsOf(t) # {} =>
                LET timed == TimedRowsOf(t)
                    summary == reply.targets[t]
                IN  /\ summary.avg_response_time
                          = Round2(SumOf(timed, "avg_response_time"), Cardinality(timed))
                    /\ summary.min_response_time
                          = 100 * SeqMin(ColumnOf(timed, "min_response_time"))
                    /\ summary.max_response_time
                          = 100 * SeqMax(ColumnOf(timed, "max_response_time"))

====
